---------------------------- MODULE Spec2Model ----------------------------
(***************************************************************************)
(* CLI calculator: the calculation engine (package calculator), its error *)
(* taxonomy (package errors), the file-backed history (package           *)
(* history), input validation (package validation), configuration         *)
(* (package config) and the menu loop (package businessService, main).    *)
(*                                                                         *)
(* Spec     : one History object, its backing file, and every History      *)
(*            operation.                                                   *)
(* CalcSpec : the pure function Calculate applied to operand lists drawn   *)
(*            from a bounded set.                                          *)
(* InputSpec: ValidateNumber applied to every short line.                  *)
(* ServiceSpec / MenuSpec : the process from main to its exit, one action  *)
(*            per console read.                                            *)
(***************************************************************************)
EXTENDS Integers, Sequences, FiniteSets, TLC

VARIABLES
    Entries,    \* History.Entries : sequence of Entry
    MaxSize,    \* History.MaxSize
    FilePath,   \* History.FilePath
    file,       \* what the file system holds at FilePath
    ret,        \* the last History call and what it returned
    added,      \* AddSpec only: every entry appended since NewHistory or Clear
    saved,      \* the Entries and MaxSize the last successful Save serialized
    calc,       \* the last Calculate call: arguments and return values
    svc         \* the process: configuration, Service and position in main/Run

vars == <<Entries, MaxSize, FilePath, file, ret, added, saved, calc, svc>>

(***************************************************************************)
(* float64.  A value is NaN, +Inf, -Inf or a finite number s * m * 10^e    *)
(* whose significand m keeps Digits decimal digits (float64 keeps 53       *)
(* bits); results are rounded to nearest, ties to even, overflow to an     *)
(* infinity above 10^MaxExp10 and flush to zero below 10^MinExp10.  Zero   *)
(* is unsigned.                                                            *)
(***************************************************************************)
Digits == 3

MaxExp10 == 308

MinExp10 == -324

RECURSIVE Pow10(_)
Pow10(k) == IF k <= 0 THEN 1 ELSE 10 * Pow10(k - 1)

RECURSIVE NumDigits(_)
NumDigits(n) == IF n < 10 THEN 1 ELSE 1 + NumDigits(n \div 10)

NaN == [k |-> "nan", s |-> 1, m |-> 0, e |-> 0]

Inf(sign) == [k |-> "inf", s |-> sign, m |-> 0, e |-> 0]

Zero == [k |-> "fin", s |-> 1, m |-> 0, e |-> 0]

\* math.IsNaN
IsNaN(x) == x.k = "nan"

\* math.IsInf(x, 0)
IsInf(x) == x.k = "inf"

IsFinite(x) == x.k = "fin"

\* The float64 nearest to sign * (n + f) * 10^e, where 0 < f < 1 iff sticky.
\* With sticky set, n must have more than Digits digits.
Round(sign, n, e, sticky) ==
    IF n = 0 THEN Zero
    ELSE LET d     == NumDigits(n)
             k     == d - Digits
             q     == IF k > 0 THEN n \div Pow10(k) ELSE n * Pow10(-k)
             rem   == IF k > 0 THEN n % Pow10(k) ELSE 0
             half  == IF k > 0 THEN 5 * Pow10(k - 1) ELSE 1
             up    == k > 0 /\ (rem > half
                                \/ (rem = half /\ (sticky \/ q % 2 = 1)))
             q1    == IF up THEN q + 1 ELSE q
             carry == q1 = Pow10(Digits)
             mm    == IF carry THEN Pow10(Digits - 1) ELSE q1
             ee    == e + k + (IF carry THEN 1 ELSE 0)
             sci   == ee + Digits - 1
         IN  IF sci > MaxExp10 THEN Inf(sign)
             ELSE IF sci < MinExp10 THEN Zero
             ELSE [k |-> "fin", s |-> sign, m |-> mm, e |-> ee]

\* A float64 literal: sign * n * 10^e.
Mk(sign, n, e) == Round(sign, n, e, FALSE)

FNeg(x) == IF IsNaN(x) \/ x = Zero THEN x ELSE [x EXCEPT !.s = -x.s]

\* |a| < |b| for finite a, b
MagLt(a, b) ==
    IF b.m = 0 THEN FALSE
    ELSE IF a.m = 0 THEN TRUE
    ELSE a.e < b.e \/ (a.e = b.e /\ a.m < b.m)

\* Go's a < b on float64: false when either side is NaN.
FLt(a, b) ==
    IF IsNaN(a) \/ IsNaN(b) THEN FALSE
    ELSE IF a = b THEN FALSE
    ELSE IF IsInf(a) THEN a.s = -1
    ELSE IF IsInf(b) THEN b.s = 1
    ELSE IF a.m = 0 THEN b.s = 1
    ELSE IF b.m = 0 THEN a.s = -1
    ELSE IF a.s # b.s THEN a.s = -1
    ELSE IF a.s = 1 THEN MagLt(a, b) ELSE MagLt(b, a)

\* Go's a > b
FGt(a, b) == FLt(b, a)

\* Go's a == b on float64: NaN equals nothing.
FEq(a, b) == ~IsNaN(a) /\ ~IsNaN(b) /\ a = b

\* Go's a / b (IEEE 754 division)
FDiv(a, b) ==
    IF IsNaN(a) \/ IsNaN(b) THEN NaN
    ELSE IF IsInf(a) THEN (IF IsInf(b) THEN NaN ELSE Inf(a.s * b.s))
    ELSE IF IsInf(b) THEN Zero
    ELSE IF b.m = 0 THEN (IF a.m = 0 THEN NaN ELSE Inf(a.s * b.s))
    ELSE IF a.m = 0 THEN Zero
    ELSE LET n == a.m * Pow10(Digits + 1)
         IN  Round(a.s * b.s, n \div b.m, a.e - b.e - (Digits + 1), n % b.m # 0)

\* Go's a * b
FMul(a, b) ==
    IF IsNaN(a) \/ IsNaN(b) THEN NaN
    ELSE IF IsInf(a) \/ IsInf(b)
         THEN (IF (IsFinite(a) /\ a.m = 0) \/ (IsFinite(b) /\ b.m = 0)
               THEN NaN ELSE Inf(a.s * b.s))
    ELSE Round(a.s * b.s, a.m * b.m, a.e + b.e, FALSE)

\* Go's a + b.  The smaller addend is aligned to the larger one's exponent
\* with Digits + 1 guard digits and a sticky flag for what falls below them.
FAdd(a, b) ==
    IF IsNaN(a) \/ IsNaN(b) THEN NaN
    ELSE IF IsInf(a) THEN (IF IsInf(b) /\ a.s # b.s THEN NaN ELSE a)
    ELSE IF IsInf(b) THEN b
    ELSE IF a.m = 0 THEN b
    ELSE IF b.m = 0 THEN a
    ELSE LET big   == IF MagLt(a, b) THEN b ELSE a
             small == IF MagLt(a, b) THEN a ELSE b
             g     == Digits + 1
             gap   == big.e - small.e
             bn    == big.m * Pow10(g)
             sn    == IF gap > g THEN 0
                      ELSE (small.m * Pow10(g)) \div Pow10(gap)
             lost  == IF gap > g THEN TRUE
                      ELSE (small.m * Pow10(g)) % Pow10(gap) # 0
         IN  IF big.s = small.s
             THEN Round(big.s, bn + sn, big.e - g, lost)
             ELSE IF lost
                  THEN Round(big.s, bn - sn - 1, big.e - g, TRUE)
                  ELSE Round(big.s, bn - sn, big.e - g, FALSE)

\* Go's a - b
FSub(a, b) == FAdd(a, FNeg(b))


FLe(a, b) == FLt(a, b) \/ FEq(a, b)

One == Mk(1, 1, 0)

\* math.Floor
FFloor(x) ==
    IF ~IsFinite(x) \/ x.e >= 0 THEN x
    ELSE LET p    == Pow10(-x.e)
             ip   == IF -x.e > Digits THEN 0 ELSE x.m \div p
             frac == IF -x.e > Digits THEN x.m # 0 ELSE x.m % p # 0
         IN  IF x.s = 1 THEN Mk(1, ip, 0)
             ELSE IF frac THEN Mk(-1, ip + 1, 0) ELSE Mk(-1, ip, 0)

RECURSIVE ISqrtIn(_, _, _)
\* the largest q in lo..hi with q * q <= n
ISqrtIn(n, lo, hi) ==
    IF lo >= hi THEN lo
    ELSE LET mid == (lo + hi + 1) \div 2
         IN  IF mid * mid <= n THEN ISqrtIn(n, mid, hi)
             ELSE ISqrtIn(n, lo, mid - 1)

\* math.Sqrt
FSqrt(x) ==
    IF IsNaN(x) THEN NaN
    ELSE IF IsInf(x) THEN (IF x.s = 1 THEN x ELSE NaN)
    ELSE IF x.m = 0 THEN Zero
    ELSE IF x.s = -1 THEN NaN
    ELSE LET odd == x.e % 2 # 0
             n0  == IF odd THEN x.m * 10 ELSE x.m
             e0  == IF odd THEN x.e - 1 ELSE x.e
             d0  == NumDigits(n0)
             j2  == IF (2 * Digits - d0) % 2 = 0 THEN 2 * Digits - d0
                    ELSE 2 * Digits - d0 - 1
             n   == n0 * Pow10(j2)
             q   == ISqrtIn(n, 0, Pow10(Digits))
             r   == n - q * q
         IN  Round(1, IF r > q THEN q + 1 ELSE q, (e0 - j2) \div 2, FALSE)

RECURSIVE PowMod10(_, _)
\* 10^k modulo n
PowMod10(k, n) ==
    IF k <= 0 THEN 1 % n
    ELSE IF k % 2 = 1 THEN (10 * PowMod10(k - 1, n)) % n
    ELSE LET h == PowMod10(k \div 2, n) IN (h * h) % n

\* math.Mod(a, b) for finite a and finite b # 0: the remainder has a's sign
\* and a magnitude below |b|.
FMod(a, b) ==
    IF IsNaN(a) \/ IsNaN(b) \/ IsInf(a) THEN NaN
    ELSE IF IsInf(b) THEN a
    ELSE IF b.m = 0 THEN NaN
    ELSE IF MagLt(a, b) THEN a
    ELSE Round(a.s, (a.m * PowMod10(a.e - b.e, b.m)) % b.m, b.e, FALSE)

\* y is finite and has no fractional part
IsIntegral(y) == IsFinite(y) /\ FFloor(y) = y

\* the integer a small integral float64 stands for
IntOf(y) == IF y.e >= 0 THEN y.m * Pow10(y.e) ELSE y.m \div Pow10(-y.e)

RECURSIVE PowInt(_, _)
\* x^k for an integer k >= 0, by repeated float64 multiplication
PowInt(x, k) ==
    IF k = 0 THEN One
    ELSE IF k % 2 = 1 THEN FMul(x, PowInt(x, k - 1))
    ELSE LET h == PowInt(x, k \div 2) IN FMul(h, h)

\* math.Pow(x, y) for finite x, y.  Integral exponents are computed by
\* multiplication; an exponent too large to count has only its limit left;
\* a fractional exponent of a positive base is taken to the nearest half.
FPow(x, y) ==
    IF IsFinite(y) /\ y.m = 0 THEN One
    ELSE IF x = One THEN One
    ELSE IF IsNaN(x) \/ IsNaN(y) THEN NaN
    ELSE IF IsInf(x) \/ IsInf(y) THEN NaN
    ELSE IF x.m = 0 THEN (IF y.s = -1 THEN Inf(1) ELSE Zero)
    ELSE IF ~IsIntegral(y)
         THEN IF x.s = -1 THEN NaN
              ELSE LET fl == FFloor(y)
                       k  == IF MagLt(fl, Mk(1, 1, Digits + 3)) THEN IntOf(fl) ELSE 0
                       w  == IF fl.s = -1 THEN FDiv(One, PowInt(x, k))
                             ELSE PowInt(x, k)
                   IN  FMul(w, FSqrt(x))
    ELSE IF MagLt(y, Mk(1, 1, Digits + 3))
         THEN IF y.s = -1 THEN FDiv(One, PowInt(x, IntOf(y)))
              ELSE PowInt(x, IntOf(y))
    ELSE IF [x EXCEPT !.s = 1] = One THEN One
    ELSE IF MagLt(One, x) = (y.s = 1) THEN Inf(1)
    ELSE Zero

(***************************************************************************)
(* package errors                                                          *)
(***************************************************************************)
ErrInvalidInput == "invalid input provided"

ErrDivisionByZero == "division by zero"

ErrNegativeSquareRoot == "cannot calculate square root of negative number"

ErrInvalidOperation == "invalid operation"

ErrOutOfRange == "value out of allowed range"

\* An error value.  kind is the dynamic type: "nil" for a nil error,
\* "ValidationError", "CalculationError", "FileError", or "wrapError" for
\* what fmt.Errorf("%s: %w") returns.  Err names the wrapped cause ("nil"
\* for none).  ValidationError.Value and CalculationError.Operands only feed
\* the message and are not kept.
ErrorValue(kind, field, message, operation, reason, path, err) ==
    [kind |-> kind, Field |-> field, Message |-> message,
     Operation |-> operation, Reason |-> reason, Path |-> path, Err |-> err]

NoError == ErrorValue("nil", "", "", "", "", "", "nil")

NewValidationError(field, value, message) ==
    ErrorValue("ValidationError", field, message, "", "", "", "nil")

NewCalculationError(operation, operands, reason, err) ==
    ErrorValue("CalculationError", "", "", operation, reason, "", err)

NewFileError(path, operation, err) ==
    ErrorValue("FileError", "", "", operation, "", path, err)

\* err is the name of a non-nil cause; the result has fmt's wrapping type.
WrapWithContext(err, format) ==
    IF err = "nil" THEN NoError
    ELSE ErrorValue("wrapError", "", format, "", "", "", err)

(***************************************************************************)
(* package constants                                                       *)
(***************************************************************************)
OpUnknown == 0

OpAddition == 1

OpSubtraction == 2

OpMultiplication == 3

OpDivision == 4

OpPower == 5

OpSquareRoot == 6

OpModulo == 7

OpFactorial == 8

\* Operation.String
String(o) ==
    CASE o = OpAddition -> "Addition"
      [] o = OpSubtraction -> "Subtraction"
      [] o = OpMultiplication -> "Multiplication"
      [] o = OpDivision -> "Division"
      [] o = OpPower -> "Power"
      [] o = OpSquareRoot -> "Square Root"
      [] o = OpModulo -> "Modulo"
      [] o = OpFactorial -> "Factorial"
      [] OTHER -> "Unknown"

MaxNumberInputValue == Mk(1, 1, 15)

MinNumberInputValue == Mk(-1, 1, 15)

(***************************************************************************)
(* package calculator                                                      *)
(***************************************************************************)
\* getRequiredOperandCount
getRequiredOperandCount(operation) ==
    IF operation \in {OpSquareRoot, OpFactorial} THEN 1
    ELSE IF operation \in {OpAddition, OpSubtraction, OpMultiplication} THEN 1
    ELSE 2

\* validateOperand without the range check
validateOperandNoRange(i, val) ==
    IF IsNaN(val)
    THEN NewValidationError("operand[" \o ToString(i) \o "]", "NaN",
                            "operand cannot be NaN")
    ELSE IF IsInf(val)
    THEN NewValidationError("operand[" \o ToString(i) \o "]", "Inf",
                            "operand cannot be infinity")
    ELSE NoError

\* the body of validateCalculation's loop for operand i (0-based) = val
validateOperand(i, val) ==
    IF IsNaN(val)
    THEN NewValidationError("operand[" \o ToString(i) \o "]", "NaN",
                            "operand cannot be NaN")
    ELSE IF IsInf(val)
    THEN NewValidationError("operand[" \o ToString(i) \o "]", "Inf",
                            "operand cannot be infinity")
    ELSE IF FGt(val, MaxNumberInputValue) \/ FLt(val, MinNumberInputValue)
    THEN NewValidationError("operand[" \o ToString(i) \o "]", "%f",
                            "operand must be between %e and %e")
    ELSE NoError

RECURSIVE validateOperandsFrom(_, _)
\* validateCalculation's loop from operand i (1-based) on: the first error
validateOperandsFrom(operands, i) ==
    IF i > Len(operands) THEN NoError
    ELSE LET err == validateOperand(i - 1, operands[i])
         IN  IF err # NoError THEN err
             ELSE validateOperandsFrom(operands, i + 1)

validateCalculation(operation, operands) ==
    IF Len(operands) = 0
    THEN NewValidationError("operands", "none", "at least one operand is required")
    ELSE IF Len(operands) < getRequiredOperandCount(operation)
    THEN NewValidationError("operands", ToString(Len(operands)),
                            "%s requires %d operands, got %d")
    ELSE validateOperandsFrom(operands, 1)

RECURSIVE addFrom(_, _, _)
addFrom(operands, i, result) ==
    IF i > Len(operands) THEN result
    ELSE addFrom(operands, i + 1, FAdd(result, operands[i]))

add(operands) == addFrom(operands, 1, Zero)

RECURSIVE subtractFrom(_, _, _)
subtractFrom(operands, i, result) ==
    IF i > Len(operands) THEN result
    ELSE subtractFrom(operands, i + 1, FSub(result, operands[i]))

\* subtract that starts from 0 instead of the first operand
subtractFromZero(operands) == subtractFrom(operands, 1, Zero)

subtract(operands) ==
    IF Len(operands) = 0 THEN Zero
    ELSE IF Len(operands) = 1 THEN operands[1]
    ELSE subtractFrom(operands, 2, operands[1])

RECURSIVE multiplyFrom(_, _, _)
multiplyFrom(operands, i, result) ==
    IF i > Len(operands) THEN result
    ELSE multiplyFrom(operands, i + 1, FMul(result, operands[i]))

multiply(operands) ==
    IF Len(operands) = 0 THEN Zero
    ELSE multiplyFrom(operands, 1, One)

\* divide without its overflow check
divideUnchecked(a, b) ==
    IF FEq(b, Zero)
    THEN [result |-> Zero,
          err |-> NewCalculationError("Division", <<a, b>>, "division by zero",
                                      ErrDivisionByZero)]
    ELSE [result |-> FDiv(a, b), err |-> NoError]

divide(a, b) ==
    IF FEq(b, Zero)
    THEN [result |-> Zero,
          err |-> NewCalculationError("Division", <<a, b>>, "division by zero",
                                      ErrDivisionByZero)]
    ELSE LET result == FDiv(a, b)
         IN  IF IsInf(result)
             THEN [result |-> Zero,
                   err |-> NewCalculationError("Division", <<a, b>>,
                                               "result is infinity (overflow)", "nil")]
             ELSE [result |-> result, err |-> NoError]

power(a, b) == FPow(a, b)

\* squareRoot without the check for a negative operand
squareRootUnchecked(a) == [result |-> FSqrt(a), err |-> NoError]

squareRoot(a) ==
    IF FLt(a, Zero)
    THEN [result |-> Zero,
          err |-> NewCalculationError("SquareRoot", <<a>>,
                      "cannot calculate square root of negative number",
                      ErrNegativeSquareRoot)]
    ELSE [result |-> FSqrt(a), err |-> NoError]

\* modulo without the check for a zero divisor
moduloUnchecked(a, b) == [result |-> FMod(a, b), err |-> NoError]

modulo(a, b) ==
    IF FEq(b, Zero)
    THEN [result |-> Zero,
          err |-> NewCalculationError("Modulo", <<a, b>>,
                      "division by zero in modulo operation", ErrDivisionByZero)]
    ELSE [result |-> FMod(a, b), err |-> NoError]

FactorialLimit == Mk(1, 170, 0)

RECURSIVE factorialBelow(_, _, _)
\* factorial's loop stopping one short: for i < n
factorialBelow(i, n, result) ==
    IF ~FLt(i, n) THEN result
    ELSE IF FEq(FAdd(i, One), n) THEN FMul(result, i)
    ELSE LET mid  == FAdd(i, FFloor(FDiv(FSub(n, i), Mk(1, 2, 0))))
             left == factorialBelow(i, mid, result)
         IN  IF IsNaN(left) THEN left ELSE factorialBelow(mid, n, left)

RECURSIVE factorialFrom(_, _, _)
\* factorial's loop: for i <= n { result *= i; i++ }, for integral i and n.
\* The iterations i..n are run as the iterations i..mid followed by the
\* iterations mid+1..n, which is the same sequence of multiplications.  (A
\* NaN product would stay NaN to the end of the loop.)
factorialFrom(i, n, result) ==
    IF ~FLe(i, n) THEN result
    ELSE IF FEq(i, n) THEN FMul(result, i)
    ELSE LET mid  == FAdd(i, FFloor(FDiv(FSub(n, i), Mk(1, 2, 0))))
             left == factorialFrom(i, mid, result)
         IN  IF IsNaN(left) THEN left
             ELSE factorialFrom(FAdd(mid, One), n, left)

factorial(n) ==
    IF ~FEq(n, FFloor(n))
    THEN [result |-> Zero,
          err |-> NewCalculationError("Factorial", <<n>>,
                      "factorial requires an integer", ErrInvalidInput)]
    ELSE IF FLt(n, Zero)
    THEN [result |-> Zero,
          err |-> NewCalculationError("Factorial", <<n>>,
                      "factorial of negative number is undefined", ErrInvalidInput)]
    ELSE IF FGt(n, FactorialLimit)
    THEN [result |-> Zero,
          err |-> NewCalculationError("Factorial", <<n>>,
                      "factorial result would overflow (too large)", ErrOutOfRange)]
    ELSE [result |-> factorialFrom(Mk(1, 2, 0), n, One), err |-> NoError]

\* Calculate's switch, entered once validation has passed
dispatch(operation, operands) ==
    CASE operation = OpAddition -> [result |-> add(operands), err |-> NoError]
      [] operation = OpSubtraction -> [result |-> subtract(operands), err |-> NoError]
      [] operation = OpMultiplication -> [result |-> multiply(operands), err |-> NoError]
      [] operation = OpDivision -> divide(operands[1], operands[2])
      [] operation = OpPower -> [result |-> power(operands[1], operands[2]), err |-> NoError]
      [] operation = OpSquareRoot -> squareRoot(operands[1])
      [] operation = OpModulo -> modulo(operands[1], operands[2])
      [] operation = OpFactorial -> factorial(operands[1])
      [] OTHER -> [result |-> Zero,
                   err |-> NewCalculationError(String(operation), operands,
                               "unsupported operation", ErrInvalidOperation)]

\* Calculate with the operation's own checks run before the validation
CalculateDispatchFirst(operation, operands) ==
    LET r == IF Len(operands) >= 2 \/ (Len(operands) = 1 /\ getRequiredOperandCount(operation) = 1)
             THEN dispatch(operation, operands)
             ELSE [result |-> Zero, err |-> NoError]
        err == validateCalculation(operation, operands)
    IN  IF r.err # NoError THEN r
        ELSE IF err # NoError THEN [result |-> Zero, err |-> err]
        ELSE r

Calculate(operation, operands) ==
    LET err == validateCalculation(operation, operands)
    IN  IF err # NoError THEN [result |-> Zero, err |-> err]
        ELSE dispatch(operation, operands)

(***************************************************************************)
(* package validation.  An input line is a sequence of characters (one-    *)
(* character strings).  Hexadecimal literals and digit-separating          *)
(* underscores, which strconv.ParseFloat also reads, are not modelled: the *)
(* input alphabets hold none of x, p and _.                                *)
(***************************************************************************)
MinMenuOption == 1

MaxMenuOption == 7

MinBasicCalcOption == 1

MaxBasicCalcOption == 4

\* unicode.IsSpace on the characters of the input alphabets
IsSpace(c) == c \in {" ", "\t", "\n", "\r"}

RECURSIVE TrimLeft(_)
TrimLeft(s) == IF s # <<>> /\ IsSpace(Head(s)) THEN TrimLeft(Tail(s)) ELSE s

RECURSIVE TrimRight(_)
TrimRight(s) ==
    IF s # <<>> /\ IsSpace(s[Len(s)]) THEN TrimRight(SubSeq(s, 1, Len(s) - 1))
    ELSE s

\* strings.TrimSpace
TrimSpace(s) == TrimRight(TrimLeft(s))

DigitChars == <<"0", "1", "2", "3", "4", "5", "6", "7", "8", "9">>

IsDigit(c) == \E i \in 1..10 : DigitChars[i] = c

DigitVal(c) == (CHOOSE i \in 1..10 : DigitChars[i] = c) - 1

AllDigits(s) == \A i \in 1..Len(s) : IsDigit(s[i])

RECURSIVE DecimalFrom(_, _, _)
\* the number the digits s[i..] continue, acc being the number read so far
DecimalFrom(s, i, acc) ==
    IF i > Len(s) THEN acc ELSE DecimalFrom(s, i + 1, 10 * acc + DigitVal(s[i]))

Decimal(s) == DecimalFrom(s, 1, 0)

IsSign(c) == c \in {"+", "-"}

SignOf(s) == IF s # <<>> /\ Head(s) = "-" THEN -1 ELSE 1

Unsigned(s) == IF s # <<>> /\ IsSign(Head(s)) THEN Tail(s) ELSE s

\* strconv.Atoi: an optional sign and one or more decimal digits.  (No input
\* is long enough to leave the range of int.)
Atoi(s) ==
    IF Unsigned(s) # <<>> /\ AllDigits(Unsigned(s))
    THEN [n |-> SignOf(s) * Decimal(Unsigned(s)), err |-> "nil"]
    ELSE [n |-> 0, err |-> "strconv.ErrSyntax"]

\* a ValidateMenuOption that takes the line as it is
ValidateMenuOptionUntrimmed(input) ==
    IF Atoi(input).err # "nil"
    THEN [value |-> 0,
          err |-> NewValidationError("menu_option", input, "not a valid number")]
    ELSE IF Atoi(input).n < MinMenuOption \/ Atoi(input).n > MaxMenuOption
    THEN [value |-> 0,
          err |-> NewValidationError("menu_option", input, "must be between 1 and 7")]
    ELSE [value |-> Atoi(input).n, err |-> NoError]

\* ValidateMenuOption: the option and the error returned
ValidateMenuOption(input) ==
    LET trimmed == TrimSpace(input)
        num     == Atoi(trimmed)
    IN  IF num.err # "nil"
        THEN [value |-> 0,
              err |-> NewValidationError("menu_option", trimmed, "not a valid number")]
        ELSE IF num.n < MinMenuOption \/ num.n > MaxMenuOption
        THEN [value |-> 0,
              err |-> NewValidationError("menu_option", trimmed,
                                         "must be between 1 and 7")]
        ELSE [value |-> num.n, err |-> NoError]

\* ValidateBasicOperation: the operation and the error returned
ValidateBasicOperation(input) ==
    LET trimmed == TrimSpace(input)
        num     == Atoi(trimmed)
    IN  IF num.err # "nil"
        THEN [value |-> OpUnknown,
              err |-> NewValidationError("operation", trimmed, "not a valid number")]
        ELSE IF num.n < MinBasicCalcOption \/ num.n > MaxBasicCalcOption
        THEN [value |-> OpUnknown,
              err |-> NewValidationError("operation", trimmed,
                                         "must be between 1 and 4")]
        ELSE [value |-> <<OpAddition, OpSubtraction, OpMultiplication,
                          OpDivision>>[num.n],
              err |-> NoError]

ToLower(c) ==
    CASE c = "I" -> "i" [] c = "N" -> "n" [] c = "F" -> "f" [] c = "A" -> "a"
      [] c = "T" -> "t" [] c = "Y" -> "y" [] c = "E" -> "e" [] c = "S" -> "s"
      [] OTHER -> c

Lower(s) == [i \in 1..Len(s) |-> ToLower(s[i])]

\* strconv's special: the spellings of the infinities and of NaN
IsInfWord(s) ==
    Lower(s) \in {<<"i", "n", "f">>, <<"i", "n", "f", "i", "n", "i", "t", "y">>}

IsNaNWord(s) == Lower(s) = <<"n", "a", "n">>

\* the index of the first character of s that is c, or Len(s) + 1
RECURSIVE IndexFrom(_, _, _)
IndexFrom(s, c, i) ==
    IF i > Len(s) \/ ToLower(s[i]) = c THEN i ELSE IndexFrom(s, c, i + 1)

\* strconv.ParseFloat(s, 64): the value and the error returned.  A decimal
\* literal is digits with at most one point and at least one digit, and an
\* optional exponent e[sign]digits; a value too large is an infinity with
\* ErrRange.
ParseFloat(s) ==
    LET body  == Unsigned(s)
        ePos  == IndexFrom(body, "e", 1)
        mant  == SubSeq(body, 1, ePos - 1)
        expo  == SubSeq(body, ePos + 1, Len(body))
        dot   == IndexFrom(mant, ".", 1)
        whole == SubSeq(mant, 1, dot - 1)
        frac  == SubSeq(mant, dot + 1, Len(mant))
        wellFormed ==
            /\ AllDigits(whole)
            /\ AllDigits(frac)
            /\ Len(whole) + Len(frac) > 0
            /\ ePos <= Len(body)
                 => Unsigned(expo) # <<>> /\ AllDigits(Unsigned(expo))
        e10   == IF ePos <= Len(body) THEN SignOf(expo) * Decimal(Unsigned(expo))
                 ELSE 0
        value == Round(SignOf(s), Decimal(whole \o frac), e10 - Len(frac), FALSE)
    IN  IF IsInfWord(body) THEN [value |-> Inf(SignOf(s)), err |-> "nil"]
        ELSE IF IsNaNWord(s) THEN [value |-> NaN, err |-> "nil"]
        ELSE IF ~wellFormed THEN [value |-> Zero, err |-> "strconv.ErrSyntax"]
        ELSE IF IsInf(value) THEN [value |-> value, err |-> "strconv.ErrRange"]
        ELSE [value |-> value, err |-> "nil"]

\* ValidateNumber without its range check
ValidateNumberNoRange(input) ==
    LET trimmed == TrimSpace(input)
        num     == ParseFloat(trimmed)
    IN  IF trimmed = <<>>
        THEN [value |-> Zero,
              err |-> NewValidationError("number", trimmed, "cannot be empty")]
        ELSE IF num.err # "nil"
        THEN [value |-> Zero,
              err |-> NewValidationError("number", trimmed, "not a valid number")]
        ELSE [value |-> num.value, err |-> NoError]

\* ValidateNumber: the number and the error returned
ValidateNumber(input) ==
    LET trimmed == TrimSpace(input)
        num     == ParseFloat(trimmed)
    IN  IF trimmed = <<>>
        THEN [value |-> Zero,
              err |-> NewValidationError("number", trimmed, "cannot be empty")]
        ELSE IF num.err # "nil"
        THEN [value |-> Zero,
              err |-> NewValidationError("number", trimmed, "not a valid number")]
        ELSE IF FGt(num.value, MaxNumberInputValue)
                \/ FLt(num.value, MinNumberInputValue)
        THEN [value |-> Zero,
              err |-> NewValidationError("number", trimmed,
                                         "value out of allowed range")]
        ELSE [value |-> num.value, err |-> NoError]

(***************************************************************************)
(* package history                                                         *)
(***************************************************************************)
\* time.Time: the instant (wall) and whether a monotonic clock reading is
\* attached, as it is to every value time.Now returns.
ZeroTime == [wall |-> 0, mono |-> FALSE]

\* Time.IsZero
IsZero(t) == t.wall = 0

\* time.Now() at instant t
Now(t) == [wall |-> t, mono |-> TRUE]

\* Time.Equal: the same instant
TimeEqual(t, u) == t.wall = u.wall

\* a Go string holding a byte sequence that is not valid UTF-8
InvalidUTF8 == "2.00 \\xff 3.00"

\* what encoding/json writes for a string: invalid UTF-8 is replaced by
\* U+FFFD
ToValidUTF8(str) == IF str = InvalidUTF8 THEN "2.00 \\ufffd 3.00" ELSE str

\* the Error() methods of package errors and of fmt's wrapping error
Error(err) ==
    CASE err.kind = "ValidationError" ->
            "validation error for " \o err.Field \o ": " \o err.Message
      [] err.kind = "CalculationError" ->
            IF err.Err # "nil"
            THEN "calculation error in " \o err.Operation \o ": " \o err.Reason
                 \o " (caused by: " \o err.Err \o ")"
            ELSE "calculation error in " \o err.Operation \o ": " \o err.Reason
      [] err.kind = "FileError" ->
            "file error during " \o err.Operation \o " on '" \o err.Path
            \o "': " \o err.Err
      [] OTHER -> err.Message \o ": " \o err.Err

\* type Entry
Entry(timestamp, operation, expression, result, success, error) ==
    [Timestamp |-> timestamp, Operation |-> operation, Expression |-> expression,
     Result |-> result, Success |-> success, Error |-> error]

\* History.Add, lines 44-46: stamp an entry that carries no timestamp
stamp(entry, t) ==
    IF IsZero(entry.Timestamp) THEN [entry EXCEPT !.Timestamp = Now(t)] ELSE entry

\* s[excess:]
DropFirst(s, excess) == SubSeq(s, excess + 1, Len(s))

\* append-and-trim that evicts the newest entries instead of the oldest
appendAndKeepOldest(entries, entry, maxSize) ==
    LET appended == Append(entries, entry)
    IN  IF Len(appended) > maxSize THEN SubSeq(appended, 1, maxSize)
        ELSE appended

\* History.Add, lines 49-56
appendAndTrim(entries, entry, maxSize) ==
    LET appended == Append(entries, entry)
    IN  IF Len(appended) > maxSize
        THEN DropFirst(appended, Len(appended) - maxSize)
        ELSE appended

\* the Entry AddSuccess builds
successEntry(operation, expression, result) ==
    Entry(ZeroTime, operation, expression, result, TRUE, "")

\* the Entry AddError builds
errorEntry(operation, expression, err) ==
    Entry(ZeroTime, operation, expression, Zero, FALSE,
          IF err # NoError THEN Error(err) ELSE "")

\* GetRecent returning the oldest n entries instead of the newest
getRecentOldest(entries, n) ==
    IF n <= 0 THEN <<>>
    ELSE IF n >= Len(entries) THEN entries
    ELSE SubSeq(entries, 1, n)

\* History.GetRecent
getRecent(entries, n) ==
    IF n <= 0 THEN <<>>
    ELSE IF n >= Len(entries) THEN entries
    ELSE SubSeq(entries, Len(entries) - n + 1, Len(entries))

\* History.GetAll
getAll(entries) == entries

\* the predicates GetSuccessful and GetFailed pass to Filter
Matches(predicate, entry) ==
    IF predicate = "GetSuccessful" THEN entry.Success ELSE ~entry.Success

RECURSIVE filterFrom(_, _, _, _)
\* Filter's loop from entry i on
filterFrom(entries, i, predicate, filtered) ==
    IF i > Len(entries) THEN filtered
    ELSE filterFrom(entries, i + 1, predicate,
                    IF Matches(predicate, entries[i])
                    THEN Append(filtered, entries[i]) ELSE filtered)

\* History.Filter
filter(entries, predicate) == filterFrom(entries, 1, predicate, <<>>)

\* a nil *time.Time, and a pointer to a copy of t
NilTime == <<>>

TimePtr(t) == <<t>>

\* Time.Before and Time.After
Before(t, u) == t.wall < u.wall

After(t, u) == t.wall > u.wall

\* type Statistics, as its zero value but for TotalCalculations
Statistics(total) ==
    [TotalCalculations |-> total, SuccessfulCount |-> 0, FailedCount |-> 0,
     MostUsedOperation |-> "", AverageResult |-> Zero,
     FirstCalculation |-> NilTime, LastCalculation |-> NilTime]

\* GetStatistics' locals before its first loop
NoTotals ==
    [operationCounts |-> [op \in {} |-> 0], totalResult |-> Zero,
     successfulResults |-> 0]

\* operationCounts[op]++
Increment(counts, op) ==
    [o \in DOMAIN counts \cup {op} |->
        IF o = op THEN (IF op \in DOMAIN counts THEN counts[op] + 1 ELSE 1)
        ELSE counts[o]]

\* the loop body adding up and counting the results of failures as well
statisticsStepAllResults(entry, stats, totals) ==
    [stats |->
        [stats EXCEPT
            !.SuccessfulCount = IF entry.Success THEN @ + 1 ELSE @,
            !.FailedCount = IF entry.Success THEN @ ELSE @ + 1,
            !.FirstCalculation =
                IF @ = NilTime \/ Before(entry.Timestamp, @[1])
                THEN TimePtr(entry.Timestamp) ELSE @,
            !.LastCalculation =
                IF @ = NilTime \/ After(entry.Timestamp, @[1])
                THEN TimePtr(entry.Timestamp) ELSE @],
     totals |->
        [operationCounts |-> Increment(totals.operationCounts, entry.Operation),
         totalResult |-> FAdd(totals.totalResult, entry.Result),
         successfulResults |-> totals.successfulResults + 1]]

\* the body of GetStatistics' first loop for one entry
statisticsStep(entry, stats, totals) ==
    [stats |->
        [stats EXCEPT
            !.SuccessfulCount = IF entry.Success THEN @ + 1 ELSE @,
            !.FailedCount = IF entry.Success THEN @ ELSE @ + 1,
            !.FirstCalculation =
                IF @ = NilTime \/ Before(entry.Timestamp, @[1])
                THEN TimePtr(entry.Timestamp) ELSE @,
            !.LastCalculation =
                IF @ = NilTime \/ After(entry.Timestamp, @[1])
                THEN TimePtr(entry.Timestamp) ELSE @],
     totals |->
        [operationCounts |-> Increment(totals.operationCounts, entry.Operation),
         totalResult |-> IF entry.Success
                         THEN FAdd(totals.totalResult, entry.Result)
                         ELSE totals.totalResult,
         successfulResults |-> IF entry.Success THEN totals.successfulResults + 1
                               ELSE totals.successfulResults]]

RECURSIVE statisticsFrom(_, _, _)
\* GetStatistics' first loop from entry i on; acc holds stats and totals
statisticsFrom(entries, i, acc) ==
    IF i > Len(entries) THEN acc
    ELSE statisticsFrom(entries, i + 1,
                        statisticsStep(entries[i], acc.stats, acc.totals))

RECURSIVE mostUsedFrom(_, _, _, _, _)
\* GetStatistics' second loop: the map's keys come in the sequence order
mostUsedFrom(counts, order, i, maxCount, most) ==
    IF i > Len(order) THEN most
    ELSE IF counts[order[i]] > maxCount
    THEN mostUsedFrom(counts, order, i + 1, counts[order[i]], order[i])
    ELSE mostUsedFrom(counts, order, i + 1, maxCount, most)

\* the orders in which a range over a map with these keys may visit them:
\* Go leaves the iteration order of a map unspecified and randomises it
Orders(keys) ==
    {order \in [1..Cardinality(keys) -> keys] :
        \A k \in keys : \E i \in 1..Cardinality(keys) : order[i] = k}

\* the operation names in entries
Keys(entries) == {entries[i].Operation : i \in 1..Len(entries)}

\* History.GetStatistics when the range over operationCounts visits the keys
\* in this order
getStatistics(entries, order) ==
    IF Len(entries) = 0 THEN Statistics(0)
    ELSE LET acc == statisticsFrom(entries, 1,
                        [stats |-> Statistics(Len(entries)), totals |-> NoTotals])
         IN  [acc.stats EXCEPT
                !.AverageResult =
                    IF acc.totals.successfulResults > 0
                    THEN FDiv(acc.totals.totalResult,
                              Mk(1, acc.totals.successfulResults, 0))
                    ELSE @,
                !.MostUsedOperation =
                    mostUsedFrom(acc.totals.operationCounts, order, 1, 0, "")]

(***************************************************************************)
(* The backing file.  file is what the file system holds at HistoryFile:   *)
(* nothing, a file the process may neither read nor write, bytes that are  *)
(* not the JSON of a History, or a JSON document.  The empty path names no *)
(* file and none can be created there.                                     *)
(***************************************************************************)
HistoryFile == ".calculator_history.json"

NoDoc == [entries |-> <<>>, max_size |-> 0]

Absent == [kind |-> "absent", doc |-> NoDoc]

Denied == [kind |-> "denied", doc |-> NoDoc]

Corrupt == [kind |-> "corrupt", doc |-> NoDoc]

JSONFile(doc) == [kind |-> "json", doc |-> doc]

\* what the file system holds at path
fileAt(path, f) == IF path = HistoryFile THEN f ELSE Absent

\* encoding/json on an Entry: the timestamp is written as RFC 3339 text
\* (the instant, no monotonic reading), strings are coerced to valid UTF-8,
\* and "error" is left out when empty (omitempty).
marshalEntry(entry) ==
    [timestamp |-> entry.Timestamp.wall,
     operation |-> ToValidUTF8(entry.Operation),
     expression |-> ToValidUTF8(entry.Expression),
     result |-> entry.Result,
     success |-> entry.Success,
     error |-> IF entry.Error = "" THEN <<>> ELSE <<ToValidUTF8(entry.Error)>>]

unmarshalEntry(j) ==
    [Timestamp |-> [wall |-> j.timestamp, mono |-> FALSE],
     Operation |-> j.operation,
     Expression |-> j.expression,
     Result |-> j.result,
     Success |-> j.success,
     Error |-> IF j.error = <<>> THEN "" ELSE j.error[1]]

\* json.MarshalIndent(h): FilePath is not written (json:"-"); a NaN or
\* infinite Result is an UnsupportedValueError.
MarshalIndent(entries, maxSize) ==
    IF \A i \in 1..Len(entries) : IsFinite(entries[i].Result)
    THEN [err |-> "nil",
          doc |-> [entries |-> [i \in 1..Len(entries) |-> marshalEntry(entries[i])],
                   max_size |-> maxSize]]
    ELSE [err |-> "json.UnsupportedValueError", doc |-> NoDoc]

\* json.Unmarshal(data, &loaded).Entries
Unmarshal(doc) == [i \in 1..Len(doc.entries) |-> unmarshalEntry(doc.entries[i])]

\* History.Load that keeps the oldest entries when the file holds too many
loadKeepingOldest(entries, maxSize, filePath, f) ==
    LET loaded == Unmarshal(fileAt(filePath, f).doc)
    IN  [Entries |-> IF Len(loaded) > maxSize THEN SubSeq(loaded, 1, maxSize)
                     ELSE loaded,
         err |-> NoError]

\* History.Load that empties the History when the file does not exist
loadClearingWhenAbsent(entries, maxSize, filePath, f) ==
    [Entries |-> <<>>, err |-> NoError]

\* History.Load, lines 117-121: the file does not exist
loadAbsent(entries, maxSize, filePath, f) ==
    [Entries |-> entries, err |-> NoError]

\* History.Load that unmarshals into the History itself, losing the entries
\* when the file does not parse
loadParsedInPlace(entries, maxSize, filePath, f) ==
    IF fileAt(filePath, f).kind = "corrupt"
    THEN [Entries |-> <<>>,
          err |-> WrapWithContext("json.SyntaxError", "failed to parse history file")]
    ELSE LET loaded == Unmarshal(fileAt(filePath, f).doc)
         IN  [Entries |-> IF Len(loaded) > maxSize
                          THEN DropFirst(loaded, Len(loaded) - maxSize)
                          ELSE loaded,
              err |-> NoError]

\* History.Load, lines 129-144: the file has been read
loadParsed(entries, maxSize, filePath, f) ==
    IF fileAt(filePath, f).kind = "corrupt"
    THEN [Entries |-> entries,
          err |-> WrapWithContext("json.SyntaxError", "failed to parse history file")]
    ELSE LET loaded == Unmarshal(fileAt(filePath, f).doc)
         IN  [Entries |-> IF Len(loaded) > maxSize
                          THEN DropFirst(loaded, Len(loaded) - maxSize)
                          ELSE loaded,
              err |-> NoError]

\* History.Load: the new Entries and the error returned
load(entries, maxSize, filePath, f) ==
    IF fileAt(filePath, f).kind = "absent"
    THEN loadAbsent(entries, maxSize, filePath, f)
    ELSE IF fileAt(filePath, f).kind = "denied"
    THEN [Entries |-> entries, err |-> NewFileError(filePath, "read", "os.PathError")]
    ELSE loadParsed(entries, maxSize, filePath, f)

\* History.Save: the new file content and the error returned
save(entries, maxSize, filePath, f) ==
    LET data == MarshalIndent(entries, maxSize)
    IN  IF data.err # "nil"
        THEN [file |-> f, err |-> WrapWithContext(data.err, "failed to marshal history")]
        ELSE IF filePath # HistoryFile \/ f.kind = "denied"
        THEN [file |-> f, err |-> NewFileError(filePath, "write", "os.PathError")]
        ELSE [file |-> JSONFile(data.doc), err |-> NoError]

(***************************************************************************)
(* package config.  A Config is kept by the fields that decide what the    *)
(* service does; the display switches (show_welcome, clear_screen,         *)
(* color_output) and the reserved fields are left out.  A config file is   *)
(* absent, unreadable, not JSON, or a JSON object giving some of the       *)
(* fields.                                                                 *)
(***************************************************************************)
DefaultPrecision == 2

MaxHistoryEntries == 100

ConfigFields == {"precision", "max_history", "save_history", "auto_save",
                 "confirm_exit"}

\* DefaultConfig
DefaultConfig ==
    [Precision |-> DefaultPrecision, MaxHistory |-> MaxHistoryEntries,
     SaveHistory |-> TRUE, AutoSave |-> TRUE, ConfirmExit |-> FALSE]

NoConfigFile == [kind |-> "absent", doc |-> <<>>]

DeniedConfigFile == [kind |-> "denied", doc |-> <<>>]

CorruptConfigFile == [kind |-> "corrupt", doc |-> <<>>]

\* a config file holding the JSON object doc, a function from some of
\* ConfigFields to values
ConfigFile(doc) == [kind |-> "json", doc |-> doc]

\* json.Unmarshal(data, config): the fields the object gives replace those of
\* config, the others stay
UnmarshalConfig(doc, config) ==
    LET get(field, old) == IF field \in DOMAIN doc THEN doc[field] ELSE old
    IN  [Precision |-> get("precision", config.Precision),
         MaxHistory |-> get("max_history", config.MaxHistory),
         SaveHistory |-> get("save_history", config.SaveHistory),
         AutoSave |-> get("auto_save", config.AutoSave),
         ConfirmExit |-> get("confirm_exit", config.ConfirmExit)]

\* config.Load: the Config and the error returned
configLoad(cfgFile) ==
    CASE cfgFile.kind = "absent" -> [cfg |-> DefaultConfig, err |-> NoError]
      [] cfgFile.kind = "denied" ->
            [cfg |-> DefaultConfig,
             err |-> NewFileError(".calculator_config.json", "read", "os.PathError")]
      [] cfgFile.kind = "corrupt" ->
            [cfg |-> DefaultConfig,
             err |-> WrapWithContext("json.SyntaxError", "failed to parse config file")]
      [] OTHER -> [cfg |-> UnmarshalConfig(cfgFile.doc, DefaultConfig), err |-> NoError]

\* Config.Validate
Validate(c) ==
    IF c.Precision < 0 \/ c.Precision > 15
    THEN NewValidationError("precision", "", "must be between 0 and 15")
    ELSE IF c.MaxHistory < 0 \/ c.MaxHistory > 10000
    THEN NewValidationError("max_history", "", "must be between 0 and 10000")
    ELSE NoError

(***************************************************************************)
(* fmt: a float64 printed with %.pf                                        *)
(***************************************************************************)
RECURSIVE Zeros(_)
Zeros(k) == IF k <= 0 THEN "" ELSE "0" \o Zeros(k - 1)

RECURSIVE DigitString(_, _)
\* the last width decimal digits of n
DigitString(n, width) ==
    IF width <= 0 THEN ""
    ELSE DigitString(n \div 10, width - 1) \o ToString(n % 10)

\* n / 10^k rounded to the nearest integer, ties to even
RoundDiv(n, k) ==
    LET q   == n \div Pow10(k)
        rem == n % Pow10(k)
    IN  IF 2 * rem > Pow10(k) \/ (2 * rem = Pow10(k) /\ q % 2 = 1) THEN q + 1
        ELSE q

\* fmt.Sprintf("%.pf", x)
FormatFixed(x, p) ==
    IF IsNaN(x) THEN "NaN"
    ELSE IF IsInf(x) THEN (IF x.s = 1 THEN "+Inf" ELSE "-Inf")
    ELSE LET sign   == IF x.s = -1 /\ x.m # 0 THEN "-" ELSE ""
             point  == IF p > 0 THEN "." ELSE ""
             scaled == IF -x.e - p > Digits THEN 0 ELSE RoundDiv(x.m, -x.e - p)
         IN  IF x.m = 0 THEN "0" \o point \o Zeros(p)
             ELSE IF x.e >= 0
             THEN sign \o ToString(x.m) \o Zeros(x.e) \o point \o Zeros(p)
             ELSE IF -x.e <= p
             THEN sign \o ToString(x.m \div Pow10(-x.e)) \o point
                  \o DigitString((x.m % Pow10(-x.e)) * Pow10(p + x.e), p)
             ELSE sign \o ToString(scaled \div Pow10(p)) \o point
                  \o DigitString(scaled % Pow10(p), p)

\* Operation.Symbol; the radical sign is written sqrt
Symbol(o) ==
    CASE o = OpAddition -> "+"
      [] o = OpSubtraction -> "-"
      [] o = OpMultiplication -> "*"
      [] o = OpDivision -> "/"
      [] o = OpPower -> "^"
      [] o = OpSquareRoot -> "sqrt"
      [] o = OpModulo -> "%"
      [] o = OpFactorial -> "!"
      [] OTHER -> "?"

\* Service.buildExpression, for the operand lists getOperands returns
buildExpression(operation, operands) ==
    CASE operation = OpSquareRoot -> "sqrt" \o FormatFixed(operands[1], 2)
      [] operation = OpFactorial -> FormatFixed(operands[1], 0) \o "!"
      [] operation \in {OpAddition, OpSubtraction, OpMultiplication, OpDivision,
                        OpPower, OpModulo} /\ Len(operands) >= 2 ->
            FormatFixed(operands[1], 2) \o " " \o Symbol(operation) \o " "
            \o FormatFixed(operands[2], 2)
      [] OTHER -> String(operation) \o "(...)"

(***************************************************************************)
(* package util and the input handling of package businessService.  A      *)
(* console read is the line typed, or the error of a read that met the end *)
(* of the input.                                                           *)
(***************************************************************************)
\* errors.Wrap
Wrap(err, message) ==
    IF err = NoError THEN NoError
    ELSE ErrorValue("wrapError", "", message, "", "", "", Error(err))

Typed(line) == [line |-> line, err |-> "nil"]

EndOfInput == [line |-> <<>>, err |-> "io.EOF"]

\* util.GetUserInput on this console read
GetUserInput(read) ==
    IF read.err # "nil"
    THEN [input |-> <<>>, err |-> WrapWithContext(read.err, "failed to read input")]
    ELSE [input |-> TrimSpace(read.line), err |-> NoError]

\* util.Confirm on this console read
Confirm(read) ==
    LET in == GetUserInput(read)
    IN  IF in.err # NoError THEN [confirm |-> FALSE, err |-> in.err]
        ELSE [confirm |-> Lower(TrimSpace(in.input)) \in {<<"y">>, <<"y", "e", "s">>},
              err |-> NoError]

RECURSIVE DigitPrefix(_)
\* the digits s starts with
DigitPrefix(s) ==
    IF s # <<>> /\ IsDigit(Head(s)) THEN <<Head(s)>> \o DigitPrefix(Tail(s)) ELSE <<>>

\* fmt.Sscanf(input, "%d", &num): an optional sign and the digits that follow;
\* what comes after them is not read
Sscanf(input) ==
    IF DigitPrefix(Unsigned(input)) = <<>>
    THEN [n |-> 0, err |-> "expected integer"]
    ELSE [n |-> SignOf(input) * Decimal(DigitPrefix(Unsigned(input))), err |-> "nil"]

\* Service.validateAdvancedOperation
validateAdvancedOperation(input) ==
    LET num == Sscanf(input)
    IN  IF num.err # "nil"
        THEN [value |-> OpUnknown,
              err |-> NewValidationError("operation", input, "not a valid number")]
        ELSE IF num.n \notin 1..4
        THEN [value |-> OpUnknown,
              err |-> NewValidationError("operation", input, "must be between 1 and 4")]
        ELSE [value |-> CASE num.n = 1 -> OpPower
                          [] num.n = 2 -> OpSquareRoot
                          [] num.n = 3 -> OpModulo
                          [] OTHER -> OpFactorial,
              err |-> NoError]

\* Service.getOperands: how many numbers it reads
OperandsRead(operation) ==
    IF operation \in {OpSquareRoot, OpFactorial} THEN 1 ELSE 2

(***************************************************************************)
(* Bounds and the inputs the operations are called with                    *)
(***************************************************************************)
MaxSizeBound == 2       \* NewHistory is called with maxSize in 0..MaxSizeBound

MaxFileEntries == 3     \* entries in a history file written by another run

MaxAdds == 4            \* AddSpec: entries appended between two resets

MaxOperands == 3        \* CalcSpec: longest operand list

Instants == {1, 2}      \* what time.Now() may read

Paths == {HistoryFile, ""}

SuccessInputs ==
    { <<"Addition", "1.00 + 2.00", Mk(1, 3, 0)>>,
      <<"Power", "-1.00 ^ 0.50", NaN>> }

ErrorInputs ==
    { <<"Division", "1.00 / 0.00", divide(One, Zero).err>>,
      <<"Division", "1.00 / 0.00", NoError>> }

EntryInputs ==
    { Entry([wall |-> 1, mono |-> FALSE], "Multiplication", InvalidUTF8,
            Mk(1, 6, 0), TRUE, "") }

\* entry i of a history file written by another run
fileEntry(i) ==
    IF i % 2 = 1
    THEN [timestamp |-> i, operation |-> "Addition", expression |-> "1.00 + 2.00",
          result |-> Mk(1, 3, 0), success |-> TRUE, error |-> <<>>]
    ELSE [timestamp |-> i, operation |-> "Square Root", expression |-> "sqrt(-4.00)",
          result |-> Zero, success |-> FALSE, error |-> <<"negative">>]

\* history files written by another run, whose max_size was 7
SampleDocs ==
    { [entries |-> [i \in 1..k |-> fileEntry(i)], max_size |-> 7] :
        k \in {0, 1, MaxFileEntries} }

OperandValues ==
    { NaN, Inf(1), Inf(-1),
      MaxNumberInputValue, MinNumberInputValue,
      Mk(1, 101, 13), Mk(-1, 101, 13),
      Zero, Mk(1, 2, 0), Mk(-1, 4, 0), Mk(1, 35, -1), Mk(1, 1, -300),
      One, Mk(1, 5, 0), Mk(1, 16, 0), FactorialLimit, Mk(1, 171, 0) }

\* the operands tried in lists longer than a binary operation reads
FoldValues ==
    { NaN, MaxNumberInputValue, Mk(1, 101, 13),
      Zero, Mk(1, 2, 0), Mk(-1, 4, 0), Mk(1, 35, -1), Mk(1, 5, 0), Mk(1, 16, 0) }

RECURSIVE SeqsUpTo(_, _)
\* the sequences over S of length at most n
SeqsUpTo(S, n) ==
    IF n = 0 THEN {<<>>}
    ELSE LET shorter == SeqsUpTo(S, n - 1)
         IN  shorter \cup {Append(q, x) : q \in {r \in shorter : Len(r) = n - 1}, x \in S}

\* the operand lists Calculate is called with: every list of at most two
\* operands, and the longer lists over FoldValues
OperandLists ==
    SeqsUpTo(OperandValues, 2) \cup SeqsUpTo(FoldValues, MaxOperands)

Operations == (OpUnknown..OpFactorial) \cup {99}

MaxCalcs == 2           \* ServiceSpec: calculations made in one run

MaxInputLen == 4        \* InputSpec, MenuSpec: longest line typed

\* the characters of the lines typed at the main menu
MenuAlphabet == {" ", "+", "-", "0", "1", "7", "8", "a"}

\* the characters of the lines typed where a number is read
NumberAlphabet == {" ", "-", ".", "1", "5", "e", "N", "a", "I", "n", "f"}

MenuStrings == SeqsUpTo(MenuAlphabet, MaxInputLen)

NumberStrings == SeqsUpTo(NumberAlphabet, MaxInputLen)

\* what a run of ServiceSpec is given at its prompts
MenuLines == { <<"1">>, <<"2">>, <<"4">>, <<"7">>, <<"8">>, <<"x">> }

BasicLines == { <<"4">>, <<"0">>, <<"5">> }

AdvancedLines == { <<"2">>, <<"0">>, <<"q">> }

NumberLines == { <<"0">>, <<"-", "1">>, <<"x">> }

ConfirmLines == { <<"Y">>, <<"n">> }

Reads(lines) == {Typed(line) : line \in lines} \cup {EndOfInput}

\* the -precision flag of the command line
FlagPrecisions == {DefaultPrecision, 5, 16}

\* the config files a run may find
ConfigFiles ==
    { NoConfigFile, DeniedConfigFile, CorruptConfigFile,
      ConfigFile([precision |-> 16]),
      ConfigFile([max_history |-> 10001]),
      ConfigFile([max_history |-> 0 - 1]),
      ConfigFile([max_history |-> 0]),
      ConfigFile([max_history |-> 1, confirm_exit |-> TRUE]),
      ConfigFile([save_history |-> FALSE]),
      ConfigFile([auto_save |-> FALSE]) }

\* the history files a run may find
HistoryFiles ==
    { Absent, Denied, Corrupt,
      JSONFile([entries |-> [i \in 1..MaxFileEntries |-> fileEntry(i)],
                max_size |-> 7]) }

(***************************************************************************)
(* State                                                                   *)
(***************************************************************************)
NoSave == [valid |-> FALSE, Entries |-> <<>>, MaxSize |-> 0]

Returned(op, err, fresh) == [op |-> op, err |-> err, fresh |-> fresh]

\* no process is running: the History is used on its own
NoService == [pc |-> "none"]

NoCalc == [called |-> FALSE, operation |-> OpUnknown, operands |-> <<>>,
           result |-> Zero, err |-> NoError]

\* the state NewHistory(filePath, maxSize) returns, no history file on disk
Init ==
    /\ Entries = <<>>
    /\ MaxSize \in 0..MaxSizeBound
    /\ FilePath \in Paths
    /\ file = Absent
    /\ ret = Returned("NewHistory", NoError, FALSE)
    /\ added = <<>>
    /\ saved = NoSave
    /\ calc = NoCalc
    /\ svc = NoService

(***************************************************************************)
(* History operations                                                      *)
(***************************************************************************)
NewHistoryCall(filePath, maxSize) ==
    /\ Entries' = <<>>
    /\ MaxSize' = maxSize
    /\ FilePath' = filePath
    /\ ret' = Returned("NewHistory", NoError, FALSE)
    /\ UNCHANGED <<file, saved, calc, svc>>

\* History.Add(entry) when time.Now() reads t, called as op
AddCall(op, entry, t) ==
    /\ Entries' = appendAndTrim(Entries, stamp(entry, t), MaxSize)
    /\ ret' = Returned(op, NoError, FALSE)
    /\ UNCHANGED <<MaxSize, FilePath, file, saved, calc, svc>>

\* a Clear that also gives up the bound
ClearCallDroppingBound ==
    /\ Entries' = <<>>
    /\ MaxSize' = 0
    /\ ret' = Returned("Clear", NoError, FALSE)
    /\ UNCHANGED <<FilePath, file, saved, calc, svc>>

\* History.Clear
ClearCall ==
    /\ Entries' = <<>>
    /\ ret' = Returned("Clear", NoError, FALSE)
    /\ UNCHANGED <<MaxSize, FilePath, file, saved, calc, svc>>

NewHistory ==
    \E filePath \in Paths, maxSize \in 0..MaxSizeBound :
        NewHistoryCall(filePath, maxSize) /\ UNCHANGED added

Add ==
    \E entry \in EntryInputs, t \in Instants :
        AddCall("Add", entry, t) /\ UNCHANGED added

AddSuccess ==
    \E in \in SuccessInputs, t \in Instants :
        AddCall("AddSuccess", successEntry(in[1], in[2], in[3]), t) /\ UNCHANGED added

AddError ==
    \E in \in ErrorInputs, t \in Instants :
        AddCall("AddError", errorEntry(in[1], in[2], in[3]), t) /\ UNCHANGED added

Clear == ClearCall /\ UNCHANGED added

Load ==
    LET r == load(Entries, MaxSize, FilePath, file)
    IN  /\ Entries' = r.Entries
        /\ ret' = Returned("Load", r.err, ret.op = "NewHistory")
        /\ UNCHANGED <<MaxSize, FilePath, file, added, saved, calc, svc>>

Save ==
    LET r == save(Entries, MaxSize, FilePath, file)
    IN  /\ file' = r.file
        /\ ret' = Returned("Save", r.err, FALSE)
        /\ saved' = IF r.err = NoError
                    THEN [valid |-> TRUE, Entries |-> Entries, MaxSize |-> MaxSize]
                    ELSE saved
        /\ UNCHANGED <<Entries, MaxSize, FilePath, added, calc, svc>>

\* Something other than this History changes the file: it is deleted, made
\* inaccessible, overwritten with garbage, or written by another run.
FileChanged ==
    \E f \in {Absent, Denied, Corrupt} \cup {JSONFile(d) : d \in SampleDocs} :
        /\ f # file
        /\ file' = f
        /\ ret' = Returned("external", NoError, FALSE)
        /\ saved' = NoSave
        /\ UNCHANGED <<Entries, MaxSize, FilePath, added, calc, svc>>

Next ==
    \/ NewHistory
    \/ Add
    \/ AddSuccess
    \/ AddError
    \/ Clear
    \/ Load
    \/ Save
    \/ FileChanged

Spec == Init /\ [][Next]_vars

(***************************************************************************)
(* The read-only operations.  ret keeps the argument and the value         *)
(* returned.                                                               *)
(***************************************************************************)
ReturnedValue(op, arg, value) ==
    [op |-> op, err |-> NoError, fresh |-> FALSE, arg |-> arg, value |-> value]

GetRecent ==
    \E n \in -1..(MaxSizeBound + 1) :
        /\ ret' = ReturnedValue("GetRecent", n, getRecent(Entries, n))
        /\ UNCHANGED <<Entries, MaxSize, FilePath, file, added, saved, calc, svc>>

GetAll ==
    /\ ret' = ReturnedValue("GetAll", <<>>, getAll(Entries))
    /\ UNCHANGED <<Entries, MaxSize, FilePath, file, added, saved, calc, svc>>

Filter ==
    \E predicate \in {"GetSuccessful", "GetFailed"} :
        /\ ret' = ReturnedValue("Filter", predicate, filter(Entries, predicate))
        /\ UNCHANGED <<Entries, MaxSize, FilePath, file, added, saved, calc, svc>>

GetStatistics ==
    \E order \in Orders(Keys(Entries)) :
        /\ ret' = ReturnedValue("GetStatistics", <<>>, getStatistics(Entries, order))
        /\ UNCHANGED <<Entries, MaxSize, FilePath, file, added, saved, calc, svc>>

(***************************************************************************)
(* QuerySpec: the read-only operations on every History the in-memory      *)
(* operations and Load can build                                           *)
(***************************************************************************)
QueryNext ==
    \/ NewHistory
    \/ Add
    \/ AddSuccess
    \/ AddError
    \/ Clear
    \/ Load
    \/ FileChanged
    \/ GetRecent
    \/ GetAll
    \/ Filter
    \/ GetStatistics

QuerySpec == Init /\ [][QueryNext]_vars

(***************************************************************************)
(* LifeSpec: every operation of a History                                  *)
(***************************************************************************)
LifeNext ==
    \/ QueryNext
    \/ Save

LifeSpec == Init /\ [][LifeNext]_vars

(***************************************************************************)
(* LoadSpec: Load against the files another run may have left, on a        *)
(* History that may already hold entries                                   *)
(***************************************************************************)
LoadNext ==
    \/ NewHistory
    \/ Add
    \/ AddSuccess
    \/ AddError
    \/ Clear
    \/ Load
    \/ FileChanged

LoadSpec == Init /\ [][LoadNext]_vars

(***************************************************************************)
(* AddSpec: the in-memory operations, with the log of what was appended    *)
(***************************************************************************)
LoggedNewHistory ==
    \E filePath \in Paths, maxSize \in 0..MaxSizeBound :
        NewHistoryCall(filePath, maxSize) /\ added' = <<>>

LoggedAdd ==
    \E entry \in EntryInputs, t \in Instants :
        /\ Len(added) < MaxAdds
        /\ AddCall("Add", entry, t)
        /\ added' = Append(added, stamp(entry, t))

LoggedAddSuccess ==
    \E in \in SuccessInputs, t \in Instants :
        /\ Len(added) < MaxAdds
        /\ AddCall("AddSuccess", successEntry(in[1], in[2], in[3]), t)
        /\ added' = Append(added, stamp(successEntry(in[1], in[2], in[3]), t))

LoggedAddError ==
    \E in \in ErrorInputs, t \in Instants :
        /\ Len(added) < MaxAdds
        /\ AddCall("AddError", errorEntry(in[1], in[2], in[3]), t)
        /\ added' = Append(added, stamp(errorEntry(in[1], in[2], in[3]), t))

LoggedClear == ClearCall /\ added' = <<>>

AddNext ==
    \/ LoggedNewHistory
    \/ LoggedAdd
    \/ LoggedAddSuccess
    \/ LoggedAddError
    \/ LoggedClear

AddSpec == Init /\ [][AddNext]_vars

(***************************************************************************)
(* CalcSpec: Calculate applied to every operation and operand list         *)
(***************************************************************************)
CalculateCall ==
    /\ ~calc.called
    /\ LET r == Calculate(calc.operation, calc.operands)
       IN  calc' = [calc EXCEPT !.called = TRUE, !.result = r.result, !.err = r.err]
    /\ UNCHANGED <<Entries, MaxSize, FilePath, file, ret, added, saved, svc>>

CalcNext == CalculateCall

\* the arguments of the call are drawn here; CalculateCall makes the call
CalcInit ==
    /\ Entries = <<>>
    /\ MaxSize = 0
    /\ FilePath = HistoryFile
    /\ file = Absent
    /\ ret = Returned("NewHistory", NoError, FALSE)
    /\ added = <<>>
    /\ saved = NoSave
    /\ calc \in { [NoCalc EXCEPT !.operation = operation, !.operands = operands] :
                    operation \in Operations,
                    operands \in OperandLists }
    /\ svc = NoService

CalcSpec == CalcInit /\ [][CalcNext]_vars

(***************************************************************************)
(* The process: main, NewService and Run.  svc holds the config file found *)
(* at start, the Service's Config, where the process stands (pc), the      *)
(* operation and first operand of the calculation being read, the number   *)
(* of calculations made, the exit code, and step: what the last step read  *)
(* and did.  Each action runs the code from one console read to the next.  *)
(* The clock reads the number of the calculation.  What is only printed    *)
(* (menus, results, FormatResult's text, the history listing) is left out. *)
(***************************************************************************)
NoRead == [line |-> <<>>, err |-> "nil"]

\* a step of the process: the function that ended it, what it read, the error
\* it returned, whether Calculate was called, and how often Save was
Step(name, read, err, calculated, saves) ==
    [name |-> name, read |-> read, err |-> err, calculated |-> calculated,
     saves |-> saves]

Running == {"menu", "basic", "advanced", "operand1", "operand2", "confirm"}

ExitSuccess == 0

ExitError == 1

ExitInvalidInput == 2

\* the process as main begins: cfgFile is the config file it will find, typed
\* the line a run of MenuSpec is given at the main menu
Started(cfgFile, typed) ==
    [pc |-> "start", configFile |-> cfgFile, typed |-> typed,
     Config |-> DefaultConfig, operation |-> OpUnknown, first |-> Zero,
     calcs |-> 0, exit |-> ExitSuccess,
     step |-> Step("start", NoRead, NoError, FALSE, 0)]

ServiceInit ==
    /\ Entries = <<>>
    /\ MaxSize = 0
    /\ FilePath = ""
    /\ file \in HistoryFiles
    /\ ret = Returned("none", NoError, FALSE)
    /\ added = <<>>
    /\ saved = NoSave
    /\ calc = NoCalc
    /\ svc \in {Started(cfgFile, <<>>) : cfgFile \in ConfigFiles}

\* NewService, lines 28-32: the Config the Service gets
serviceConfig(cfgFile) ==
    IF configLoad(cfgFile).err # NoError THEN DefaultConfig
    ELSE configLoad(cfgFile).cfg

\* a NewService that gives up when the history cannot be loaded
newServiceErrorStrict(loadErr) == loadErr

\* NewService, lines 38-48: the error returned
newServiceError(loadErr) == NoError

\* main, line 51: NewService.  make panics on a negative capacity.
NewServiceCall ==
    /\ svc.pc = "start"
    /\ LET cfg == serviceConfig(svc.configFile)
           r   == load(<<>>, cfg.MaxHistory, HistoryFile, file)
       IN  IF cfg.MaxHistory < 0
           THEN /\ svc' = [svc EXCEPT !.pc = "panicked", !.exit = 2,
                               !.step = Step("NewHistory", NoRead, NoError, FALSE, 0)]
                /\ UNCHANGED <<Entries, MaxSize, FilePath, ret>>
           ELSE /\ Entries' = r.Entries
                /\ MaxSize' = cfg.MaxHistory
                /\ FilePath' = HistoryFile
                /\ ret' = Returned("Load", r.err, TRUE)
                /\ svc' = [svc EXCEPT
                            !.pc = IF newServiceError(r.err) # NoError THEN "exited"
                                   ELSE "created",
                            !.exit = IF newServiceError(r.err) # NoError
                                     THEN ExitError ELSE @,
                            !.Config = cfg,
                            !.step = Step("NewService", NoRead,
                                          newServiceError(r.err), FALSE, 0)]
    /\ UNCHANGED <<file, added, saved, calc>>

\* main, lines 58-67, that checks the flag but not the Config
flagOverride(precision, flagPrecision) ==
    IF flagPrecision # DefaultPrecision
    THEN IF flagPrecision < 0 \/ flagPrecision > 15
         THEN [exit |-> TRUE, precision |-> precision]
         ELSE [exit |-> FALSE, precision |-> flagPrecision]
    ELSE [exit |-> FALSE, precision |-> precision]

\* main, lines 58-76: the flag override, and Run up to its first read
ApplyFlags ==
    /\ svc.pc = "created"
    /\ \E flagPrecision \in FlagPrecisions :
          LET o == flagOverride(svc.Config.Precision, flagPrecision)
          IN  svc' = IF o.exit
                     THEN [svc EXCEPT !.pc = "exited", !.exit = ExitInvalidInput,
                                      !.step = Step("main", NoRead, NoError, FALSE, 0)]
                     ELSE [svc EXCEPT !.pc = "menu", !.Config.Precision = o.precision,
                                      !.step = Step("main", NoRead, NoError, FALSE, 0)]
    /\ UNCHANGED <<Entries, MaxSize, FilePath, file, ret, added, saved, calc>>

\* the process goes on at pc after a step that left the History alone
Goes(pc, step) ==
    /\ svc' = [svc EXCEPT !.pc = pc, !.step = step, !.operation = OpUnknown,
                          !.first = Zero]
    /\ UNCHANGED <<Entries, MaxSize, FilePath, file, ret, added, saved, calc>>

\* a handleExit that saves whatever the Config says
exitSavesAlways(config) == TRUE

\* handleExit, line 393
exitSaves(config) == config.AutoSave /\ config.SaveHistory

\* handleExit, lines 392-400, and Run returning nil to main
ExitNow(read) ==
    LET r == save(Entries, MaxSize, FilePath, file)
    IN  IF exitSaves(svc.Config)
        THEN /\ file' = r.file
             /\ ret' = Returned("Save", r.err, FALSE)
             /\ saved' = IF r.err = NoError
                         THEN [valid |-> TRUE, Entries |-> Entries, MaxSize |-> MaxSize]
                         ELSE saved
             /\ svc' = [svc EXCEPT !.pc = "exited", !.exit = ExitSuccess,
                                   !.step = Step("handleExit", read, NoError, FALSE, 1)]
             /\ UNCHANGED <<Entries, MaxSize, FilePath, added, calc>>
        ELSE /\ svc' = [svc EXCEPT !.pc = "exited", !.exit = ExitSuccess,
                                   !.step = Step("handleExit", read, NoError, FALSE, 0)]
             /\ UNCHANGED <<Entries, MaxSize, FilePath, file, ret, added, saved, calc>>

\* a Run that gives up on a menu line it cannot validate
RunOnRejectedStrict(read, err) ==
    /\ svc' = [svc EXCEPT !.pc = "exited", !.exit = ExitError,
                          !.step = Step("ValidateMenuOption", read, err, FALSE, 0)]
    /\ UNCHANGED <<Entries, MaxSize, FilePath, file, ret, added, saved, calc>>

\* Run, lines 70-73
RunOnRejected(read, err) ==
    Goes("menu", Step("ValidateMenuOption", read, err, FALSE, 0))

\* Run, lines 61-85, and handleMenuOption: one turn of the main loop, up to
\* the next read
ReadMenuFrom(reads) ==
    /\ svc.pc = "menu"
    /\ \E read \in reads :
          LET in     == GetUserInput(read)
              option == ValidateMenuOption(in.input)
          IN  IF in.err # NoError
              THEN /\ svc' = [svc EXCEPT !.pc = "exited", !.exit = ExitError,
                                !.step = Step("Run", read,
                                              Wrap(in.err, "failed to read menu input"),
                                              FALSE, 0)]
                   /\ UNCHANGED <<Entries, MaxSize, FilePath, file, ret, added,
                                  saved, calc>>
              ELSE IF option.err # NoError THEN RunOnRejected(read, option.err)
              ELSE CASE option.value = 1 ->
                            Goes("basic", Step("handleMenuOption", read, NoError, FALSE, 0))
                     [] option.value = 2 ->
                            Goes("advanced", Step("handleMenuOption", read, NoError, FALSE, 0))
                     [] option.value = 7 /\ svc.Config.ConfirmExit ->
                            Goes("confirm", Step("handleMenuOption", read, NoError, FALSE, 0))
                     [] option.value = 7 /\ ~svc.Config.ConfirmExit -> ExitNow(read)
                     [] OTHER ->
                            Goes("menu", Step("handleMenuOption", read, NoError, FALSE, 0))

ReadMenu == ReadMenuFrom(Reads(MenuLines))

\* handleExit, lines 382-390, after the menu's 7
ReadConfirm ==
    /\ svc.pc = "confirm"
    /\ \E read \in Reads(ConfirmLines) :
          LET c == Confirm(read)
          IN  IF c.err # NoError
              THEN Goes("menu", Step("handleExit", read, c.err, FALSE, 0))
              ELSE IF ~c.confirm
              THEN Goes("menu", Step("handleExit", read, NoError, FALSE, 0))
              ELSE ExitNow(read)

\* handleBasicCalculator and handleAdvancedCalculator up to the read of the
\* first operand; validate is the validation the submenu uses
ReadOperationFrom(pc, name, reads, validate(_)) ==
    /\ svc.pc = pc
    /\ \E read \in reads :
          LET in == GetUserInput(read)
              op == validate(in.input)
          IN  IF in.err # NoError
              THEN Goes("menu", Step(name, read, in.err, FALSE, 0))
              ELSE IF in.input = <<"0">>
              THEN Goes("menu", Step(name, read, NoError, FALSE, 0))
              ELSE IF op.err # NoError
              THEN Goes(pc, Step(name, read, op.err, FALSE, 0))
              ELSE /\ svc.calcs < MaxCalcs
                   /\ svc' = [svc EXCEPT !.pc = "operand1", !.operation = op.value,
                                !.step = Step(name, read, NoError, FALSE, 0)]
                   /\ UNCHANGED <<Entries, MaxSize, FilePath, file, ret, added,
                                  saved, calc>>

ReadBasicOperation ==
    ReadOperationFrom("basic", "handleBasicCalculator", Reads(BasicLines),
                      ValidateBasicOperation)

ReadAdvancedOperation ==
    ReadOperationFrom("advanced", "handleAdvancedCalculator", Reads(AdvancedLines),
                      validateAdvancedOperation)

\* a performCalculation that saves after a failed calculation as well
autoSavesAlways(config, err) == config.AutoSave

\* performCalculation, lines 222-246: whether Save is called after the entry
\* has been recorded
autoSaves(config, err) == err = NoError /\ config.AutoSave

\* a performCalculation that records successes only
recordsSuccessOnly(config, err) == config.SaveHistory /\ err = NoError

\* performCalculation, lines 224 and 237: whether the calculation is recorded
records(config, err) == config.SaveHistory

\* performCalculation, lines 222-246, once Calculate has returned r and the
\* History holds entries: the auto-save, and the return to the main menu
Concluded(read, operands, r, entries, saving, s) ==
    /\ calc' = [called |-> TRUE, operation |-> svc.operation, operands |-> operands,
                result |-> r.result, err |-> r.err]
    /\ Entries' = entries
    /\ file' = IF saving THEN s.file ELSE file
    /\ saved' = IF saving /\ s.err = NoError
                THEN [valid |-> TRUE, Entries |-> entries, MaxSize |-> MaxSize]
                ELSE saved
    /\ ret' = IF saving THEN Returned("Save", s.err, FALSE)
              ELSE IF ~records(svc.Config, r.err) THEN ret
              ELSE IF r.err # NoError THEN Returned("AddError", NoError, FALSE)
              ELSE Returned("AddSuccess", NoError, FALSE)
    /\ svc' = [svc EXCEPT !.pc = "menu", !.operation = OpUnknown, !.first = Zero,
                 !.calcs = @ + 1,
                 !.step = Step("performCalculation", read, r.err, TRUE,
                               IF saving THEN 1 ELSE 0)]
    /\ UNCHANGED <<MaxSize, FilePath, added>>

\* performCalculation, lines 222-238, once Calculate has returned r: the
\* History after AddError or AddSuccess
Recorded(read, operands, r, entries) ==
    Concluded(read, operands, r, entries,
              records(svc.Config, r.err) /\ autoSaves(svc.Config, r.err),
              save(entries, MaxSize, FilePath, file))

\* the entry performCalculation records at instant t
calculationEntry(operation, expression, r, t) ==
    stamp(IF r.err # NoError THEN errorEntry(String(operation), expression, r.err)
          ELSE successEntry(String(operation), expression, r.result), t)

\* performCalculation, lines 218-238, with the result of Calculate
Evaluated(read, operands, r) ==
    Recorded(read, operands, r,
             IF records(svc.Config, r.err)
             THEN appendAndTrim(Entries,
                                calculationEntry(svc.operation,
                                                 buildExpression(svc.operation, operands),
                                                 r, svc.calcs + 1),
                                MaxSize)
             ELSE Entries)

\* performCalculation, lines 218-249, with the operands read
Calculated(read, operands) ==
    Evaluated(read, operands, Calculate(svc.operation, operands))

\* readNumber, lines 279-283, with what GetUserInput returned
numberOf(in) ==
    IF in.err # NoError THEN [value |-> Zero, err |-> in.err]
    ELSE ValidateNumber(in.input)

\* readNumber on this console read
readNumber(read) == numberOf(GetUserInput(read))

\* getOperands, lines 257-267, with what the first readNumber returned
FirstOperandRead(read, num) ==
    IF num.err # NoError
    THEN Goes("menu", Step("performCalculation", read, num.err, FALSE, 0))
    ELSE IF OperandsRead(svc.operation) = 1
    THEN Calculated(read, <<num.value>>)
    ELSE /\ svc' = [svc EXCEPT !.pc = "operand2", !.first = num.value,
                      !.step = Step("readNumber", read, NoError, FALSE, 0)]
         /\ UNCHANGED <<Entries, MaxSize, FilePath, file, ret, added, saved, calc>>

\* getOperands' first readNumber, and what follows when it is the only one
ReadFirstOperand ==
    /\ svc.pc = "operand1"
    /\ \E read \in Reads(NumberLines) : FirstOperandRead(read, readNumber(read))

\* getOperands, lines 268-272, with what the second readNumber returned
SecondOperandRead(read, num) ==
    IF num.err # NoError
    THEN Goes("menu", Step("performCalculation", read, num.err, FALSE, 0))
    ELSE Calculated(read, <<svc.first, num.value>>)

\* getOperands' second readNumber, and what follows
ReadSecondOperand ==
    /\ svc.pc = "operand2"
    /\ \E read \in Reads(NumberLines) : SecondOperandRead(read, readNumber(read))

ServiceNext ==
    \/ NewServiceCall
    \/ ApplyFlags
    \/ ReadMenu
    \/ ReadConfirm
    \/ ReadBasicOperation
    \/ ReadAdvancedOperation
    \/ ReadFirstOperand
    \/ ReadSecondOperand

ServiceSpec == ServiceInit /\ [][ServiceNext]_vars

(***************************************************************************)
(* MenuSpec: runs given, whenever the main menu asks, one line of up to     *)
(* MaxInputLen characters, or nothing more.  They find a history file, and *)
(* no config file or one that asks for the exit to be confirmed; the       *)
(* calculators and the confirmation are entered and not followed.          *)
(***************************************************************************)
MenuInit ==
    /\ Entries = <<>>
    /\ MaxSize = 0
    /\ FilePath = ""
    /\ file \in {f \in HistoryFiles : f.kind = "json"}
    /\ ret = Returned("none", NoError, FALSE)
    /\ added = <<>>
    /\ saved = NoSave
    /\ calc = NoCalc
    /\ svc \in {Started(cfgFile, typed) :
                    cfgFile \in {NoConfigFile, ConfigFile([confirm_exit |-> TRUE])},
                    typed \in MenuStrings}

ReadAnyMenu == ReadMenuFrom({Typed(svc.typed), EndOfInput})

MenuNext ==
    \/ NewServiceCall
    \/ ApplyFlags
    \/ ReadAnyMenu

MenuSpec == MenuInit /\ [][MenuNext]_vars

(***************************************************************************)
(* InputSpec: ValidateNumber applied to every line of up to MaxInputLen    *)
(* characters                                                              *)
(***************************************************************************)
InputInit ==
    /\ Entries = <<>>
    /\ MaxSize = 0
    /\ FilePath = HistoryFile
    /\ file = Absent
    /\ ret = Returned("NewHistory", NoError, FALSE)
    /\ added = <<>>
    /\ saved = NoSave
    /\ calc = NoCalc
    /\ svc \in { [pc |-> "input", input |-> input, value |-> Zero, err |-> NoError] :
                    input \in NumberStrings }

ValidateNumberCall ==
    /\ svc.pc = "input"
    /\ svc' = [svc EXCEPT !.pc = "validated",
                          !.value = ValidateNumber(svc.input).value,
                          !.err = ValidateNumber(svc.input).err]
    /\ UNCHANGED <<Entries, MaxSize, FilePath, file, ret, added, saved, calc>>

InputNext == ValidateNumberCall

InputSpec == InputInit /\ [][InputNext]_vars

(***************************************************************************)
(* Properties                                                              *)
(***************************************************************************)
Min(a, b) == IF a <= b THEN a ELSE b

\* the last n elements of s
LastN(s, n) == SubSeq(s, Len(s) - n + 1, Len(s))

\* two entries that agree field by field, timestamps compared as instants
EntryEqual(a, b) ==
    /\ TimeEqual(a.Timestamp, b.Timestamp)
    /\ a.Operation = b.Operation
    /\ a.Expression = b.Expression
    /\ a.Result = b.Result
    /\ a.Success = b.Success
    /\ a.Error = b.Error

EntriesEqual(s, t) ==
    Len(s) = Len(t) /\ \A i \in 1..Len(s) : EntryEqual(s[i], t[i])

ValidStrings(entries) ==
    \A i \in 1..Len(entries) :
        /\ ToValidUTF8(entries[i].Operation) = entries[i].Operation
        /\ ToValidUTF8(entries[i].Expression) = entries[i].Expression
        /\ ToValidUTF8(entries[i].Error) = entries[i].Error

TypedKinds == {"ValidationError", "CalculationError", "FileError"}

\* C1 (AddSpec): after every Add, AddSuccess or AddError the History holds at
\* most MaxSize entries, and they are the most recently appended
\* min(count, MaxSize) entries in the order they were appended.
C1_BoundedMostRecent ==
    /\ Len(Entries) <= MaxSize
    /\ Entries = LastN(added, Min(Len(added), MaxSize))

\* C1 witness: more entries were appended than fit, so the oldest were evicted.
C1_Evicted ==
    /\ ret.op \in {"Add", "AddSuccess", "AddError"}
    /\ MaxSize >= 1
    /\ Len(added) > MaxSize + 1
    /\ Len(Entries) = MaxSize

\* the state after Save succeeded, a fresh History with the same path and
\* MaxSize was constructed, and its Load succeeded, the file untouched since
RoundTripped ==
    /\ ret.op = "Load"
    /\ ret.fresh
    /\ ret.err = NoError
    /\ saved.valid
    /\ saved.MaxSize = MaxSize
    /\ FilePath = HistoryFile

\* C2 as claimed: a successful Save followed by Load on a fresh History with
\* the same path and MaxSize yields the entry list that was saved.
C2_RoundTripAnyHistory ==
    RoundTripped => EntriesEqual(Entries, saved.Entries)

\* What Save and Load do preserve: the round trip of a History whose entries'
\* Operation, Expression and Error strings are valid UTF-8.
RoundTripValidUTF8 ==
    (RoundTripped /\ ValidStrings(saved.Entries))
        => EntriesEqual(Entries, saved.Entries)

\* A round trip of two entries happened, one stamped by Add with time.Now()
\* and one a failure carrying an error message.
RoundTripHappened ==
    /\ RoundTripped
    /\ ValidStrings(saved.Entries)
    /\ Len(saved.Entries) = 2
    /\ saved.Entries[1].Timestamp.mono
    /\ saved.Entries[2].Error # ""
    /\ saved.Entries[1] # saved.Entries[2]

\* C3 as claimed: Load with no backing file returns no error and leaves the
\* History without entries, whatever it held.
C3_LoadAbsentEmpties ==
    (ret.op = "Load" /\ fileAt(FilePath, file).kind = "absent")
        => (ret.err = NoError /\ Entries = <<>>)

\* What Load does with no backing file: it returns no error and leaves the
\* entries exactly as they were before the call.
LoadAbsentKeeps ==
    [][(ret'.op = "Load" /\ fileAt(FilePath, file).kind = "absent")
          => (ret'.err = NoError /\ Entries' = Entries
              /\ (ret.op = "NewHistory" => Entries' = <<>>))]_vars

\* Load returned nil with no file, on a History holding entries.
LoadAbsentNonEmpty ==
    /\ ret.op = "Load"
    /\ fileAt(FilePath, file).kind = "absent"
    /\ ret.err = NoError
    /\ Len(Entries) > 0

\* C4: a successful Load of a file holding k entries sets Entries to the last
\* min(k, MaxSize) entries of the file, in file order, and changes neither
\* MaxSize nor FilePath.
C4_LoadKeepsLastOfFile ==
    [][(ret'.op = "Load" /\ ret'.err = NoError
        /\ fileAt(FilePath, file).kind = "json")
          => /\ Entries' = LastN(Unmarshal(file.doc),
                                 Min(Len(file.doc.entries), MaxSize))
             /\ MaxSize' = MaxSize
             /\ FilePath' = FilePath]_vars

\* C4 witness: a loaded file that held more entries than MaxSize and a
\* max_size other than the History's.
C4_LoadTruncated ==
    /\ ret.op = "Load"
    /\ ret.err = NoError
    /\ fileAt(FilePath, file).kind = "json"
    /\ MaxSize >= 1
    /\ Len(file.doc.entries) > MaxSize
    /\ file.doc.max_size # MaxSize
    /\ Len(Entries) = MaxSize

\* C5 as claimed: Load of an existing file that cannot be parsed returns a
\* FileError.
C5_CorruptIsFileError ==
    (ret.op = "Load" /\ fileAt(FilePath, file).kind = "corrupt")
        => ret.err.kind = "FileError"

\* C6 as claimed: every non-nil error Calculate, Load or Save returns is a
\* ValidationError, a CalculationError or a FileError.
C6_ErrorsAreTyped ==
    /\ (ret.op \in {"Load", "Save"} /\ ret.err # NoError)
          => ret.err.kind \in TypedKinds
    /\ (calc.called /\ calc.err # NoError) => calc.err.kind \in TypedKinds

\* v is NaN, infinite, above 1e15 or below -1e15
BadOperand(v) == ~IsFinite(v) \/ MagLt(Mk(1, 1, 15), v)

\* the operation needs two operands and has fewer
TooShort(operation, operands) ==
    operation \in {OpDivision, OpPower, OpModulo} /\ Len(operands) < 2

\* C7: with an empty or too short operand list, or any NaN, infinite or
\* out-of-range operand, Calculate returns a ValidationError (and result 0),
\* never an operation's own CalculationError.
C7_ValidationFirst ==
    (/\ calc.called
     /\ \/ Len(calc.operands) = 0
        \/ TooShort(calc.operation, calc.operands)
        \/ \E i \in 1..Len(calc.operands) : BadOperand(calc.operands[i]))
        => /\ calc.err.kind = "ValidationError"
           /\ calc.err.Err = "nil"
           /\ calc.result = Zero

\* C7 witness: Division of an out-of-range dividend by zero was rejected by
\* the validation.
C7_OutOfRangeOverZero ==
    /\ calc.called
    /\ calc.operation = OpDivision
    /\ calc.operands = <<Mk(1, 101, 13), Zero>>
    /\ calc.err.kind = "ValidationError"

\* C8 as claimed: SquareRoot and Factorial are rejected unless given exactly
\* one operand, Division, Power and Modulo unless given exactly two, and
\* Addition, Subtraction and Multiplication accept any count >= 1.
C8_ExactArity ==
    calc.called =>
        /\ (calc.operation \in {OpSquareRoot, OpFactorial}
            /\ Len(calc.operands) # 1) => calc.err.kind = "ValidationError"
        /\ (calc.operation \in {OpDivision, OpPower, OpModulo}
            /\ Len(calc.operands) # 2) => calc.err.kind = "ValidationError"
        /\ (calc.operation \in {OpAddition, OpSubtraction, OpMultiplication}
            /\ Len(calc.operands) >= 1
            /\ \A i \in 1..Len(calc.operands) : ~BadOperand(calc.operands[i]))
               => calc.err.kind # "ValidationError"

\* C9: any NaN, infinite or out-of-range operand, at any position and for any
\* operation, makes Calculate return a ValidationError; operands equal to
\* 1e15 or -1e15 are not rejected.
C9_OperandChecks ==
    calc.called =>
        /\ (\E i \in 1..Len(calc.operands) : BadOperand(calc.operands[i]))
              => calc.err.kind = "ValidationError"
        /\ (Len(calc.operands) >= 2
            /\ \A i \in 1..Len(calc.operands) :
                  calc.operands[i] \in {Mk(1, 1, 15), Mk(-1, 1, 15)})
              => calc.err.kind # "ValidationError"

\* C9 witness: 1e15 passed the range check and the operand after it, just
\* above 1e15, was the one rejected.
C9_BoundaryPassedNextRejected ==
    /\ calc.called
    /\ Len(calc.operands) = 2
    /\ calc.operands[1] = Mk(1, 1, 15)
    /\ calc.operands[2] = Mk(1, 101, 13)
    /\ calc.err.kind = "ValidationError"
    /\ calc.err.Field = "operand[1]"

\* a Division of two valid operands, the divisor not zero, has been computed
ValidDivision ==
    /\ calc.called
    /\ calc.operation = OpDivision
    /\ Len(calc.operands) = 2
    /\ ~BadOperand(calc.operands[1])
    /\ ~BadOperand(calc.operands[2])
    /\ calc.operands[2] # Zero

\* C10 as claimed: for valid a and b # 0, Calculate(Division, [a, b]) returns
\* the quotient a / b and a nil error.
C10_QuotientAlways ==
    ValidDivision
        => /\ calc.err = NoError
           /\ calc.result = FDiv(calc.operands[1], calc.operands[2])

\* C10 amended: it returns the quotient and a nil error unless the quotient
\* overflows float64 to an infinity; then it returns 0 and a CalculationError
\* with no wrapped cause.
C10_QuotientUnlessOverflow ==
    ValidDivision
        => IF IsInf(FDiv(calc.operands[1], calc.operands[2]))
           THEN /\ calc.err.kind = "CalculationError"
                /\ calc.err.Err = "nil"
                /\ calc.result = Zero
           ELSE /\ calc.err = NoError
                /\ calc.result = FDiv(calc.operands[1], calc.operands[2])

\* C10 witness: a quotient of valid operands that overflowed.
C10_Overflowed ==
    /\ ValidDivision
    /\ IsInf(FDiv(calc.operands[1], calc.operands[2]))
    /\ calc.err.kind = "CalculationError"

\* a Division or Modulo of two operands, the second of them zero, was computed
ZeroDivisor ==
    /\ calc.called
    /\ calc.operation \in {OpDivision, OpModulo}
    /\ Len(calc.operands) = 2
    /\ calc.operands[2] = Zero

\* Calculate failed with a CalculationError wrapping cause, and returned 0
FailedWith(cause) ==
    /\ calc.err.kind = "CalculationError"
    /\ calc.err.Err = cause
    /\ calc.result = Zero

\* C11 as claimed: Calculate(Division, [a, 0]) and Calculate(Modulo, [a, 0])
\* fail for every a with a CalculationError caused by DivisionByZero, and
\* return 0.
C11_ZeroDivisorAnyDividend ==
    ZeroDivisor => FailedWith(ErrDivisionByZero)

\* C11 amended: the same for every valid a (finite, within +-1e15); any other
\* a is rejected by the validation first.
C11_ZeroDivisorValidDividend ==
    ZeroDivisor =>
        IF BadOperand(calc.operands[1])
        THEN calc.err.kind = "ValidationError"
        ELSE FailedWith(ErrDivisionByZero)

\* C11 witness: a Modulo of the largest valid dividend by zero failed with
\* DivisionByZero.
C11_ModuloByZero ==
    /\ ZeroDivisor
    /\ calc.operation = OpModulo
    /\ calc.operands[1] = MaxNumberInputValue
    /\ FailedWith(ErrDivisionByZero)

RECURSIVE IntFactorial(_)
\* n! over the integers
IntFactorial(n) == IF n <= 1 THEN 1 ELSE n * IntFactorial(n - 1)

RECURSIVE ProductFromTo(_, _, _)
\* acc * k * (k + 1) * ... * n, multiplied left to right in float64
ProductFromTo(k, n, acc) ==
    IF k > n THEN acc
    ELSE IF k = n THEN FMul(acc, Mk(1, k, 0))
    ELSE LET left == ProductFromTo(k, (k + n) \div 2, acc)
         IN  IF ~IsFinite(left) THEN left
             ELSE ProductFromTo((k + n) \div 2 + 1, n, left)

\* 1 * 2 * ... * n
ProductUpTo(n) == ProductFromTo(1, n, One)

\* the significand holds the integer n exactly
Exact(n) == IntOf(Mk(1, n, 0)) = n

\* Calculate(Factorial, [n]) was computed
FactorialOf ==
    /\ calc.called
    /\ calc.operation = OpFactorial
    /\ Len(calc.operands) = 1

\* what C12 says of the operand n
FactorialRule(n) ==
    /\ (IsIntegral(n) /\ ~FLt(n, Zero) /\ ~FGt(n, Mk(1, 170, 0)))
          => /\ calc.err = NoError
             /\ calc.result = ProductUpTo(IntOf(n))
             /\ (IntOf(n) <= 12 /\ Exact(IntFactorial(IntOf(n))))
                   => calc.result = Mk(1, IntFactorial(IntOf(n)), 0)
    /\ (~IsIntegral(n) \/ FLt(n, Zero)) => FailedWith(ErrInvalidInput)
    /\ (IsIntegral(n) /\ FGt(n, Mk(1, 170, 0))) => FailedWith(ErrOutOfRange)

\* C12 as claimed: Factorial returns 1*2*...*n with nil error for every
\* integral n in [0, 170], fails with InvalidInput for every non-integral and
\* every negative n, and with OutOfRange for every integral n > 170.
C12_FactorialAnyOperand ==
    FactorialOf => FactorialRule(calc.operands[1])

\* C12 amended: the same for every valid n (finite, within +-1e15); any other
\* n is rejected by the validation first.
C12_FactorialValidOperand ==
    FactorialOf =>
        IF BadOperand(calc.operands[1])
        THEN calc.err.kind = "ValidationError"
        ELSE FactorialRule(calc.operands[1])

\* C12 witness: 170!, the largest factorial computed, is finite and came with
\* a nil error.
C12_LargestFactorial ==
    /\ FactorialOf
    /\ calc.operands[1] = Mk(1, 170, 0)
    /\ calc.err = NoError
    /\ IsFinite(calc.result)
    /\ FGt(calc.result, Mk(1, 1, 300))

\* |x|
FAbs(x) == IF IsNaN(x) THEN x ELSE [x EXCEPT !.s = 1]

\* x is y up to the rounding of the last digits of the significand
Close(x, y) ==
    FLe(FAbs(FSub(x, y)), FMul(FAbs(y), Mk(1, 1, -(Digits - 1))))

\* r is the principal square root of a
PrincipalRoot(r, a) ==
    /\ IsFinite(r)
    /\ ~FLt(r, Zero)
    /\ Close(FMul(r, r), a)
    /\ a = Mk(1, 16, 0) => r = Mk(1, 4, 0)

\* Calculate(SquareRoot, [a]) was computed
SquareRootOf ==
    /\ calc.called
    /\ calc.operation = OpSquareRoot
    /\ Len(calc.operands) = 1

\* C13 as claimed: SquareRoot fails with NegativeSquareRoot for every a < 0
\* and returns the principal square root with nil error for every valid
\* a >= 0.
C13_SquareRootAnyNegative ==
    SquareRootOf =>
        /\ FLt(calc.operands[1], Zero) => FailedWith(ErrNegativeSquareRoot)
        /\ (~BadOperand(calc.operands[1]) /\ ~FLt(calc.operands[1], Zero))
              => /\ calc.err = NoError
                 /\ PrincipalRoot(calc.result, calc.operands[1])

\* C13 amended: SquareRoot fails with NegativeSquareRoot for every valid
\* a < 0 (an a below -1e15 or -Inf is rejected by the validation first) and
\* returns the principal square root with nil error for every valid a >= 0.
C13_SquareRootValidOperand ==
    SquareRootOf =>
        IF BadOperand(calc.operands[1])
        THEN calc.err.kind = "ValidationError"
        ELSE IF FLt(calc.operands[1], Zero)
        THEN FailedWith(ErrNegativeSquareRoot)
        ELSE /\ calc.err = NoError
             /\ PrincipalRoot(calc.result, calc.operands[1])

\* C13 witness: the square root of the smallest valid operand was refused.
C13_NegativeRefused ==
    /\ SquareRootOf
    /\ calc.operands[1] = MinNumberInputValue
    /\ FailedWith(ErrNegativeSquareRoot)

\* C14 as claimed: for the Unknown tag and every tag outside the eight
\* operations, and every non-empty list of operands that pass the NaN,
\* infinity and range checks, Calculate fails with a CalculationError caused
\* by InvalidOperation.
C14_UnknownIsInvalidOperation ==
    (/\ calc.called
     /\ calc.operation \notin OpAddition..OpFactorial
     /\ Len(calc.operands) >= 1
     /\ \A i \in 1..Len(calc.operands) : ~BadOperand(calc.operands[i]))
        => /\ calc.err.kind = "CalculationError"
           /\ calc.err.Err = ErrInvalidOperation

RECURSIVE SumOf(_)
\* the left fold of + over xs, from 0
SumOf(xs) ==
    IF xs = <<>> THEN Zero
    ELSE FAdd(SumOf(SubSeq(xs, 1, Len(xs) - 1)), xs[Len(xs)])

RECURSIVE ProductOf(_)
\* the left fold of * over xs, from 1
ProductOf(xs) ==
    IF xs = <<>> THEN One
    ELSE FMul(ProductOf(SubSeq(xs, 1, Len(xs) - 1)), xs[Len(xs)])

RECURSIVE DifferenceOf(_)
\* xs[1] - xs[2] - ... taken left to right, for a non-empty xs
DifferenceOf(xs) ==
    IF Len(xs) = 1 THEN xs[1]
    ELSE FSub(DifferenceOf(SubSeq(xs, 1, Len(xs) - 1)), xs[Len(xs)])

\* integers small enough that sums of a whole operand list are exact
SmallIntegers(xs) ==
    \A i \in 1..Len(xs) : IsIntegral(xs[i]) /\ MagLt(xs[i], Mk(1, 2, 2))

C16_GetRecentLastN ==
    [][ret'.op = "GetRecent"
          => /\ ret'.value = IF ret'.arg > 0
                             THEN LastN(Entries, Min(ret'.arg, Len(Entries)))
                             ELSE <<>>
             /\ Entries' = Entries
             /\ MaxSize' = MaxSize
             /\ FilePath' = FilePath]_vars

\* C16 witness: GetRecent(n) returned n entries of a History holding more.
C16_RecentOfMore ==
    /\ ret.op = "GetRecent"
    /\ ret.arg > 0
    /\ ret.arg < Len(Entries)
    /\ Len(ret.value) = ret.arg
    /\ Entries[1] # Entries[Len(Entries)]

RECURSIVE SuccessfulResults(_)
\* the Result of the successful entries, in order
SuccessfulResults(entries) ==
    IF entries = <<>> THEN <<>>
    ELSE LET rest == SuccessfulResults(SubSeq(entries, 1, Len(entries) - 1))
             last == entries[Len(entries)]
         IN  IF last.Success THEN Append(rest, last.Result) ELSE rest

\* the arithmetic mean of xs, 0 for no xs
MeanOf(xs) ==
    IF xs = <<>> THEN Zero ELSE FDiv(SumOf(xs), Mk(1, Len(xs), 0))

\* C17: GetStatistics returns TotalCalculations = Count() = SuccessfulCount +
\* FailedCount, AverageResult the mean Result of the successful entries (0
\* when there are none), and on an empty History zero counts and nil
\* timestamps.
C17_StatisticsCounts ==
    ret.op = "GetStatistics" =>
        /\ ret.value.TotalCalculations = Len(Entries)
        /\ ret.value.TotalCalculations
              = ret.value.SuccessfulCount + ret.value.FailedCount
        /\ ret.value.SuccessfulCount
              = Cardinality({i \in 1..Len(Entries) : Entries[i].Success})
        /\ ret.value.AverageResult = MeanOf(SuccessfulResults(Entries))
        /\ Len(Entries) = 0
              => /\ ret.value.SuccessfulCount = 0
                 /\ ret.value.FailedCount = 0
                 /\ ret.value.FirstCalculation = NilTime
                 /\ ret.value.LastCalculation = NilTime

\* C17 witness: statistics of a History holding successes and a failure, with
\* a mean that is not 0.
C17_MixedHistory ==
    /\ ret.op = "GetStatistics"
    /\ ret.value.SuccessfulCount >= 1
    /\ ret.value.FailedCount >= 1
    /\ IsFinite(ret.value.AverageResult)
    /\ ret.value.AverageResult # Zero
    /\ ret.value.FirstCalculation # NilTime

\* how often operation occurs in entries
Occurrences(entries, operation) ==
    Cardinality({i \in 1..Len(entries) : entries[i].Operation = operation})

\* the operation with the highest count, the first of them in a
\* left-to-right scan of the entries; "" for no entries
FirstMostUsed(entries) ==
    IF entries = <<>> THEN ""
    ELSE LET best == CHOOSE i \in 1..Len(entries) :
                        /\ \A j \in 1..Len(entries) :
                              Occurrences(entries, entries[j].Operation)
                                 <= Occurrences(entries, entries[i].Operation)
                        /\ \A j \in 1..(i - 1) :
                              Occurrences(entries, entries[j].Operation)
                                 < Occurrences(entries, entries[i].Operation)
         IN  entries[best].Operation

\* C18 as claimed: MostUsedOperation is the operation with the highest
\* count, the first in a left-to-right scan of the entries when several
\* share it, so that every call on the same History returns the same name.
C18_FirstSeenWins ==
    ret.op = "GetStatistics"
        => ret.value.MostUsedOperation = FirstMostUsed(Entries)

\* C19 as claimed: the entry AddSuccess or AddError appends has Success true
\* exactly when it carries the result and an empty Error, and Success false
\* exactly when it carries a non-empty error message, for every argument.
C19_SuccessIffNoError ==
    (ret.op \in {"AddSuccess", "AddError"} /\ Len(added) > 0)
        => LET entry == added[Len(added)]
           IN  /\ ret.op = "AddSuccess" => (entry.Success /\ entry.Error = "")
               /\ ret.op = "AddError" => (~entry.Success /\ entry.Error # "")

\* next is entries after History.Add of one entry: the entries kept are the
\* newest of entries, unchanged and in order, with the new entry behind them,
\* and entries left from the front only to make room
AddedInto(entries, next, maxSize) ==
    /\ next # <<>>
    /\ Len(next) <= Len(entries) + 1
    /\ SubSeq(next, 1, Len(next) - 1) = LastN(entries, Len(next) - 1)
    /\ Len(next) <= Len(entries) => Len(next) = maxSize

\* a step of Add, AddSuccess, AddError, Clear or of an operation that leaves
\* the entries alone
AddEvictOrClear ==
    \/ Entries' = Entries
    \/ /\ ret'.op \in {"Add", "AddSuccess", "AddError"}
       /\ AddedInto(Entries, Entries', MaxSize)
    \/ /\ ret'.op = "Clear"
       /\ Entries' = <<>>

\* a successful Load of a file: the entries become the newest of the file's
ReplacedByLoad ==
    /\ ret'.op = "Load"
    /\ ret'.err = NoError
    /\ fileAt(FilePath, file).kind = "json"
    /\ Entries' = LastN(Unmarshal(file.doc), Min(Len(file.doc.entries), MaxSize))

\* C20 as claimed: across the operations of one History, an entry enters only
\* through Add, keeps its fields while it remains, and leaves only by FIFO
\* eviction or Clear.
C20_OnlyAddEvictClear ==
    [][ret'.op # "NewHistory" => AddEvictOrClear]_vars

\* C20 amended: an entry enters only through Add or a successful Load of a
\* file, keeps its fields while it remains, and leaves only by FIFO
\* eviction, by Clear, or by a successful Load, which replaces the whole
\* list by the newest entries of the file.
C20_AddLoadEvictClear ==
    [][ret'.op # "NewHistory" => (AddEvictOrClear \/ ReplacedByLoad)]_vars

\* C20 witness: a freshly constructed History got its entries from Load.
C20_EntriesFromLoad ==
    /\ ret.op = "Load"
    /\ ret.fresh
    /\ ret.err = NoError
    /\ Len(Entries) > 0

(***************************************************************************)
(* C21                                                                     *)
(***************************************************************************)
AddOps == {"Add", "AddSuccess", "AddError"}

\* C21: Clear leaves the History with zero entries and leaves MaxSize and
\* FilePath unchanged, and an Add made right after a Clear is bounded by the
\* MaxSize the History had before the Clear.
C21_ClearKeepsBound ==
    [][/\ ret'.op = "Clear"
            => /\ Entries' = <<>>
               /\ MaxSize' = MaxSize
               /\ FilePath' = FilePath
       /\ (ret.op = "Clear" /\ ret'.op \in AddOps)
            => /\ MaxSize' = MaxSize
               /\ Len(Entries') = Min(1, MaxSize)]_vars

\* Clear has returned on a History of the largest bound
C21_Cleared ==
    /\ ret.op = "Clear"
    /\ Entries = <<>>
    /\ MaxSize = MaxSizeBound
    /\ FilePath = HistoryFile

(***************************************************************************)
(* C29                                                                     *)
(***************************************************************************)
\* C29: when History.Load returns a non-nil error (file unreadable or
\* unparseable), Entries, MaxSize and FilePath are exactly what they were
\* before the call.
C29_FailedLoadKeepsHistory ==
    [][(ret'.op = "Load" /\ ret'.err # NoError)
          => /\ Entries' = Entries
             /\ MaxSize' = MaxSize
             /\ FilePath' = FilePath]_vars

\* Load has failed on a History that holds entries
C29_FailedLoadOfNonEmpty ==
    /\ ret.op = "Load"
    /\ ret.err # NoError
    /\ Len(Entries) > 0

(***************************************************************************)
(* C28                                                                     *)
(***************************************************************************)
\* Calculate returned a nil error
Succeeded == calc.called /\ calc.err = NoError

Accepted == svc.pc = "validated" /\ svc.err = NoError

\* C30: whenever ValidateNumber returns a nil error, the value it returns is
\* a number between -1e15 and 1e15, neither NaN nor infinite.
C30_ValidatedIsInRange ==
    Accepted =>
        /\ IsFinite(svc.value)
        /\ FLe(MinNumberInputValue, svc.value)
        /\ FLe(svc.value, MaxNumberInputValue)

\* ValidateNumber accepts a spelling of NaN
C30_NaNAccepted == Accepted /\ IsNaN(svc.value)

\* every accepted value that is a number lies in the range
C30_NumbersInRange ==
    (Accepted /\ ~IsNaN(svc.value)) =>
        /\ IsFinite(svc.value)
        /\ FLe(MinNumberInputValue, svc.value)
        /\ FLe(svc.value, MaxNumberInputValue)

(***************************************************************************)
(* C24                                                                     *)
(***************************************************************************)
Blanks == {" ", "\t", "\n", "\r"}

\* the positions of line that hold something other than white space
Inked(line) == {i \in 1..Len(line) : line[i] \notin Blanks}

\* line without the white space around it
Core(line) ==
    IF Inked(line) = {} THEN <<>>
    ELSE SubSeq(line, CHOOSE i \in Inked(line) : \A j \in Inked(line) : i <= j,
                      CHOOSE i \in Inked(line) : \A j \in Inked(line) : i >= j)

IsNumeral(t) == t # <<>> /\ \A i \in 1..Len(t) : \E d \in 0..9 : t[i] = ToString(d)

RECURSIVE NumeralValue(_)
NumeralValue(t) ==
    IF t = <<>> THEN 0
    ELSE 10 * NumeralValue(SubSeq(t, 1, Len(t) - 1))
         + (CHOOSE d \in 0..9 : t[Len(t)] = ToString(d))

\* the line, white space aside, is a decimal integer: digits, or a sign and
\* digits
IsInteger(line) ==
    \/ IsNumeral(Core(line))
    \/ Core(line) # <<>> /\ Head(Core(line)) \in {"+", "-"} /\ IsNumeral(Tail(Core(line)))

IntegerOf(line) ==
    IF IsNumeral(Core(line)) THEN NumeralValue(Core(line))
    ELSE IF Head(Core(line)) = "-" THEN 0 - NumeralValue(Tail(Core(line)))
    ELSE NumeralValue(Tail(Core(line)))

IsMenuChoice(line) == IsInteger(line) /\ IntegerOf(line) \in 1..7

\* where Run stands after the handler of menu option n
AfterOption(n, confirmExit) ==
    CASE n = 1 -> {"basic"}
      [] n = 2 -> {"advanced"}
      [] n = 7 -> IF confirmExit THEN {"confirm"} ELSE {"exited"}
      [] OTHER -> {"menu"}

\* C24: ValidateMenuOption returns MenuOption(n) and a nil error exactly when
\* the line, white space aside, is a decimal integer n between 1 and 7, and
\* a ValidationError for every other line; Run goes on to the handler of
\* option n in the first case, and in the second stays at the main menu,
\* with the History and its file as they were.
C24_MenuChoice ==
    [][ LET line == svc'.step.read.line IN
          (svc.pc = "menu" /\ svc'.step.read.err = "nil") =>
            IF IsMenuChoice(line)
            THEN /\ ValidateMenuOption(line) = [value |-> IntegerOf(line), err |-> NoError]
                 /\ svc'.step.err = NoError
                 /\ svc'.step.name # "ValidateMenuOption"
                 /\ svc'.pc \in AfterOption(IntegerOf(line), svc.Config.ConfirmExit)
            ELSE /\ ValidateMenuOption(line).err.kind = "ValidationError"
                 /\ svc'.step.err = ValidateMenuOption(line).err
                 /\ svc'.pc = "menu"
                 /\ <<Entries, MaxSize, FilePath, file>>' = <<Entries, MaxSize, FilePath, file>>
      ]_vars

\* the main menu has rejected 8, and the run is back at the main menu with the
\* entries it loaded
C24_EightRejected ==
    /\ svc.pc = "menu"
    /\ svc.step.name = "ValidateMenuOption"
    /\ svc.step.read = Typed(<<"8">>)
    /\ Len(Entries) = MaxFileEntries

(***************************************************************************)
(* C23                                                                     *)
(***************************************************************************)
\* C23: the Config of a running service has a precision between 0 and 15 and
\* a maxHistory between 0 and 10000, and the History was built with that
\* maxHistory, whatever the config file holds and whatever -precision is
\* given.
C23_ConfigInRange ==
    svc.pc \in Running =>
        /\ svc.Config.Precision \in 0..15
        /\ svc.Config.MaxHistory \in 0..10000
        /\ MaxSize = svc.Config.MaxHistory

\* a -precision flag outside 0..15 never reaches the Config: the process
\* exits with ExitInvalidInput before Run
C23_FlagInRange ==
    [][(svc.pc = "created" /\ svc'.pc \in Running) =>
          \/ svc'.Config.Precision = svc.Config.Precision
          \/ svc'.Config.Precision \in 0..15]_vars

(***************************************************************************)
(* C22                                                                     *)
(***************************************************************************)
\* the last History call of the step was this one, and it failed
Failed(op) == ret.op = op /\ ret.err # NoError

\* C22: a Load that fails at startup and a Save that fails in the auto-save
\* or at exit do not end the session: NewService returns a Service and a nil
\* error, with an empty History after the failed Load; performCalculation
\* returns nil after the failed Save, the entry recorded and the run back at
\* the main menu; handleExit lets Run return nil and the process exit with
\* ExitSuccess.
C22_BestEffort ==
    /\ (svc.pc # "none" /\ svc.step.name = "NewService" /\ Failed("Load")) =>
          /\ svc.step.err = NoError
          /\ svc.pc = "created"
          /\ Entries = <<>>
    /\ (svc.pc # "none" /\ svc.step.name = "performCalculation" /\ svc.step.saves = 1
        /\ Failed("Save")) =>
          /\ svc.step.err = NoError
          /\ svc.pc = "menu"
          /\ MaxSize > 0 => Entries # <<>> /\ Entries[Len(Entries)].Success
    /\ (svc.pc # "none" /\ svc.step.name = "handleExit" /\ svc.step.saves = 1
        /\ Failed("Save")) =>
          /\ svc.step.err = NoError
          /\ svc.pc = "exited"
          /\ svc.exit = ExitSuccess

\* the auto-save after a successful calculation has failed on a file the
\* process may not write, in a run whose Load had failed on it as well
C22_AutoSaveFailed ==
    /\ svc.pc = "menu"
    /\ svc.step.name = "performCalculation"
    /\ svc.step.saves = 1
    /\ Failed("Save")
    /\ file = Denied
    /\ Len(Entries) = 1

(***************************************************************************)
(* C25                                                                     *)
(***************************************************************************)
\* the step is a performCalculation that has returned
PerformedCalculation ==
    svc.pc \in {"operand1", "operand2"} /\ svc'.step.name = "performCalculation"

\* e is the entry of the Calculate call just made: a success entry with the
\* result, or a failure entry with the message of the error
EntryOfCall(e) ==
    /\ e.Operation = String(calc'.operation)
    /\ e.Timestamp # ZeroTime
    /\ IF calc'.err = NoError
       THEN e.Success /\ e.Result = calc'.result /\ e.Error = ""
       ELSE ~e.Success /\ e.Error = Error(calc'.err) /\ e.Error # ""

\* C25: a performCalculation that reaches Calculate appends exactly one entry
\* when SaveHistory is set, a success entry with the result or a failure
\* entry with the error message, the History keeping its newest MaxSize
\* entries as after every Add; it leaves the History as it was when
\* SaveHistory is not set, and when it fails while reading the operands.
C25_OneEntryPerCalculation ==
    [][ PerformedCalculation =>
          IF svc'.step.calculated /\ svc.Config.SaveHistory
          THEN /\ calc'.called
               /\ Len(Entries') = Min(Len(Entries) + 1, MaxSize)
               /\ MaxSize > 0 =>
                    /\ EntryOfCall(Entries'[Len(Entries')])
                    /\ SubSeq(Entries', 1, Len(Entries') - 1)
                         = LastN(Entries, Len(Entries') - 1)
          ELSE Entries' = Entries
      ]_vars

\* the second calculation of a run has failed and its entry has taken the
\* place of the first in a History of one
C25_FailureRecorded ==
    /\ svc.pc = "menu"
    /\ svc.step.name = "performCalculation"
    /\ svc.step.calculated
    /\ svc.step.err # NoError
    /\ svc.calcs = 2
    /\ MaxSize = 1
    /\ Len(Entries) = 1
    /\ ~Entries[1].Success
    /\ Entries[1].Timestamp = Now(2)

(***************************************************************************)
(* C26                                                                     *)
(***************************************************************************)
\* what the history file holds when it holds exactly these entries
FileOf(entries) == JSONFile(MarshalIndent(entries, MaxSize).doc)

\* every result in entries can be written as JSON
Writable(entries) == \A i \in 1..Len(entries) : IsFinite(entries[i].Result)

\* the last step was a performCalculation that recorded an entry, under
\* SaveHistory and AutoSave, with a history file the process may write
AutoSaveDue ==
    /\ svc.pc = "menu"
    /\ svc.step.name = "performCalculation"
    /\ svc.step.calculated
    /\ svc.Config.SaveHistory
    /\ svc.Config.AutoSave
    /\ file.kind # "denied"
    /\ Writable(Entries)

\* C26: with SaveHistory and AutoSave set and the file writable, after every
\* performCalculation that recorded an entry, for a successful or a failed
\* calculation, the history file holds exactly the entries in memory.
C26_FileFollowsMemory == AutoSaveDue => file = FileOf(Entries)

\* the same after the successful calculations only
C26_FileFollowsSuccess ==
    (AutoSaveDue /\ svc.step.err = NoError) => file = FileOf(Entries)

\* a failed calculation has been recorded and the file has not been written
C26_FailureNotSaved ==
    /\ AutoSaveDue
    /\ svc.step.err # NoError
    /\ svc.step.saves = 0
    /\ Entries # <<>>
    /\ file = Absent

(***************************************************************************)
(* C27                                                                     *)
(***************************************************************************)
\* the step ends Run: the process was running and has exited
RunReturns == svc.pc \in Running /\ svc'.pc = "exited"

\* the step read the answer to the exit confirmation
Answered == svc.pc = "confirm" /\ svc'.step.read.err = "nil"

\* the answer read is a yes
SaidYes ==
    Core([i \in 1..Len(svc'.step.read.line) |->
            CASE svc'.step.read.line[i] = "Y" -> "y"
              [] svc'.step.read.line[i] = "E" -> "e"
              [] svc'.step.read.line[i] = "S" -> "s"
              [] OTHER -> svc'.step.read.line[i]])
        \in {<<"y">>, <<"y", "e", "s">>}

\* C27: Run returns nil only through the Exit option of the main menu.  When
\* ConfirmExit is set and the answer is not a yes, the loop goes on and Save
\* is not called; when the exit takes place, Save is attempted exactly once
\* if AutoSave and SaveHistory are both set and not at all otherwise; an
\* error returned by a menu handler never ends the loop.
C27_ExitOnly ==
    [][ /\ (RunReturns /\ svc'.exit = ExitSuccess) =>
              /\ svc'.step.name = "handleExit"
              /\ svc'.step.err = NoError
              /\ IF svc.Config.ConfirmExit
                 THEN Answered /\ SaidYes
                 ELSE svc.pc = "menu" /\ IsMenuChoice(svc'.step.read.line)
                      /\ IntegerOf(svc'.step.read.line) = 7
              /\ svc'.step.saves
                   = IF svc.Config.AutoSave /\ svc.Config.SaveHistory THEN 1 ELSE 0
              /\ IF svc'.step.saves = 1 THEN ret'.op = "Save"
                 ELSE <<file, saved, ret>>' = <<file, saved, ret>>
        /\ (Answered /\ ~SaidYes) =>
              /\ svc'.pc = "menu"
              /\ svc'.step.saves = 0
              /\ <<file, saved, ret>>' = <<file, saved, ret>>
        /\ (svc.pc \in Running /\ svc'.step.err # NoError /\ svc'.step.name # "Run") =>
              svc'.pc \in Running
        /\ (RunReturns /\ svc'.exit # ExitSuccess) =>
              svc.pc = "menu" /\ svc'.step.name = "Run" /\ svc'.step.read = EndOfInput
      ]_vars

\* the exit has been confirmed and the History saved once on the way out
C27_ConfirmedAndSaved ==
    /\ svc.pc = "exited"
    /\ svc.exit = ExitSuccess
    /\ svc.Config.ConfirmExit
    /\ svc.step.name = "handleExit"
    /\ svc.step.saves = 1
    /\ ret = Returned("Save", NoError, FALSE)
    /\ file = FileOf(Entries)

============================================================================
